---- MODULE Spec2Model ----
(***************************************************************************)
(* State-machine model of the realtime voice session hook                  *)
(* (client/src/hooks/useAudioStream.tsx), the transcript store             *)
(* (client/src/hooks/useChatStream.tsx, addMessage) and the frame capturer *)
(* (client/public/audio-processor.js).                                     *)
(*                                                                         *)
(* Every ref of the hook is a variable; every callback (WebSocket          *)
(* handlers, timer callbacks, worklet message handler, hook operations)    *)
(* is one action.  Variables whose name starts with "h" are history        *)
(* variables: they record what the last step did and are never read by a   *)
(* guard or an assignment of a program variable.                           *)
(***************************************************************************)
EXTENDS Integers, Sequences, FiniteSets, TLC

\* ------------------------------------------------------------------ bounds
MaxConn == 2          \* WebSocket objects created over a behaviour
MaxSessions == 1      \* connections made one after the other, where every
                      \* connect() finds the earlier socket closed
MaxFrames == 3        \* cap of the uncommitted counter, in frames
MaxNodes == 1         \* worklet nodes connected at one time
MaxText == 2          \* cap of a transcript buffer, in characters
MaxMsgs == 2          \* cap of the transcript store, in records
MaxClock == 1         \* Date.now() takes the values 0..MaxClock
MaxDeltas == 3        \* audio deltas received over a behaviour
MaxChunks == 3        \* audio chunks enqueued over a behaviour
MaxInput == 2000      \* input samples handed to the frame capturer
MaxRelayFrames == 2   \* data frames each peer of the relay sends
MaxReq == 2           \* sendMessage() calls that start a request
MaxChatReads == 2     \* chunks reader.read() returns to one request

\* ------------------------------------------------------- program constants
MIN_COMMIT_SAMPLES == 2400
bufferSize == 960

Conns == 1..MaxConn
MaxSamples == MaxFrames * bufferSize

VARIABLES
  \* connection lifecycle
  sock,            \* readyState of each WebSocket object
  pc,              \* position of each connect() call; "handshake" is the
                   \* pending promise, in which sessionEstablished is false
  wsRef,           \* wsRef.current: 0 is null
  sessionReadyRef,
  isInCallActive,
  stream,          \* microphone stream acquired by each connect()
  ctx,             \* AudioContext created by each connect()
  moduleLoaded,    \* the context of each connect() has the worklet module
  nodes,           \* worklet nodes connected in each context
  mediaStreamRef,  \* mediaStreamRef.current: the connect() it came from, 0 is null
  audioContextRef, \* audioContextRef.current, likewise
  nodeRef,         \* audioWorkletNodeRef.current: the context of the node, 0 is null
  ui,              \* the React state record
  \* commit scheduler
  hasUncommittedAudioRef,
  uncommittedSamplesRef,
  responseInProgressRef,
  speechStopTimeoutRef,    \* "null", "pending" or "stale" (a fired handle)
  pendingCreateTimeoutRef,
  gracePending,            \* grace callbacks the event loop still holds
  fallbackPending,
  \* transcript assembler and store
  now,                         \* Date.now()
  currentStreamingMessageId,   \* -1 is null
  currentStreamingContent,
  userSpeechMessageId,
  userSpeechBuffer,
  messages,                    \* state.messages of useChatStream
  hCur,                        \* content of the latest event of each open cursor
  hEvents,                     \* the onAddMessage calls of the last step
  \* playback queue
  audioResponseBuffer,         \* base64 side buffer: the deltas it holds
  audioQueueRef,               \* decoded chunks waiting, each a run of deltas
  isPlayingAudioRef,
  awaiting,                    \* started sources whose drain loop awaits onended
  nextDelta,                   \* audio deltas received so far
  nextChunk,                   \* chunks enqueued so far
  hLastStarted,                \* number of the chunk whose playback began last
  hEnqueued,                   \* the deltas pushed on the queue so far, in the
                               \* order of pushing
  \* history
  hLast,           \* the last step, when it is one the properties refer to,
                   \* with its outcome: the message went out ("x.sent"), was
                   \* sent on a closing/closed socket ("x.dropped"), send()
                   \* threw ("x.threw"), nothing was to send ("x.skipped");
                   \* "grace.sent.short" is "grace.sent" under hStopShort,
                   \* "cancel.barge" a response.cancel sent under hBarge "live";
                   \* "stop.cancel" any other response.cancel sent by the
                   \* speech_stopped handler, "stop.dropped" one sent on a
                   \* closing/closed socket, "stop.threw" one whose send()
                   \* threw, "stop" a speech_stopped handled without a
                   \* response.cancel;
                   \* "startcall" is a startCall() that passed its three checks,
                   \* "startcall.refused" one that did not;
                   \* "frame.lost" is a frame handled during a call while the
                   \* socket is not open or the session not ready;
                   \* "ignored" is an inbound payload no branch of
                   \* ws.onmessage handles;
                   \* "-" after any other step
  hStopShort,      \* a grace callback is pending whose speech_stopped came
                   \* with the counter below MIN_COMMIT_SAMPLES
  hCreateOut,      \* a response.create was sent, no response.done/cancelled since
  hSession,        \* the sockets on which session.created or session.updated
                   \* was received
  hBarge,          \* the utterance in progress began by a speech_started
                   \* received during a response, and no response.cancel and
                   \* no commit was issued since: "live" while that response
                   \* flag has not been cleared, "ended" once it has; else "no"
  \* frame capturer (the AudioProcessor of audio-processor.js)
  capBuffer,       \* this.buffer; <<>> before the processor is constructed
  bufferIndex,     \* this.bufferIndex
  capPosted,       \* the data of the audioData messages posted so far
  capFed,          \* input samples handed to process() so far; the k-th
                   \* sample of the input stream has the value k
  \* relay (HandleRealtimeConnection and RelayMessages of server/Program.cs)
  apiKey,          \* the local apiKey of HandleRealtimeConnection; "unread"
                   \* before its assignment, "null" is null
  wsState,         \* WebSocket.State of webSocket and of openAiWebSocket
  lost,            \* the sockets whose connection is lost
  wire,            \* what the peer of each socket has sent and nobody has
                   \* received yet: data frames and "Close"
  handlerPc,       \* position of HandleRealtimeConnection
  relayPc,         \* position of each RelayMessages task
  relayed,         \* the frames each RelayMessages task has sent on
  hProduced,       \* the data frames the peer of each socket has sent so far
  hTaken,          \* number of data frames each task has received
  hConfigs,        \* number of session.update messages sent upstream
  \* text chat (sendMessage, cancel and clearMessages of useChatStream)
  isLoading,       \* state.isLoading
  chatError,       \* state.error
  abortRef,        \* abortRef.current: the request whose controller it is, 0 is null
  reqPc,           \* position of each sendMessage() call
  reqAborted,      \* signal.aborted of the controller of each call
  reqMsg,          \* assistantMessage.id of each call, -1 before it is made
  reqLines,        \* the lines of the chunk each call has yet to handle
  reqReads         \* chunks each call has read

capVars == <<capBuffer, bufferIndex, capPosted, capFed>>

relayVars == <<apiKey, wsState, lost, wire, handlerPc, relayPc, relayed,
               hProduced, hTaken, hConfigs>>

\* state outside the hook
chatVars == <<isLoading, chatError, abortRef, reqPc, reqAborted, reqMsg,
              reqLines, reqReads>>

outerVars == <<capVars, relayVars, chatVars>>

connVars == <<sock, pc, wsRef, sessionReadyRef>>
resVars == <<stream, ctx, moduleLoaded, nodes, mediaStreamRef,
             audioContextRef, nodeRef>>
schedVars == <<hasUncommittedAudioRef, uncommittedSamplesRef,
               responseInProgressRef, speechStopTimeoutRef,
               pendingCreateTimeoutRef, gracePending, fallbackPending>>
histVars == <<hLast, hEvents, hStopShort, hCreateOut, hBarge, hSession>>
txVars == <<now, currentStreamingMessageId, currentStreamingContent,
            userSpeechMessageId, userSpeechBuffer, messages, hCur>>
pbVars == <<audioResponseBuffer, audioQueueRef, isPlayingAudioRef, awaiting,
            nextDelta, nextChunk, hLastStarted, hEnqueued>>
vars == <<connVars, isInCallActive, resVars, ui, schedVars, txVars, pbVars,
          histVars, outerVars>>

\* the two sockets of the relay and its two RelayMessages tasks
Side == {"webSocket", "openAiWebSocket"}
Dirs == {"Client->OpenAI", "OpenAI->Client"}

\* ----------------------------------------------------------------- helpers
\* useState initial value, and the record disconnect() installs
InitialState ==
  [isConnected |-> FALSE, isInCall |-> FALSE, error |-> "none",
   sessionReady |-> FALSE, isPlayingResponse |-> FALSE,
   isReceivingResponse |-> FALSE, isRecording |-> "unset"]

\* readyState seen through wsRef.current
WsReady == IF wsRef = 0 THEN "null" ELSE sock[wsRef]

SendResult_m == "ok"

\* outcome of wsRef.current!.send(...): delivered on an OPEN socket,
\* discarded on a CLOSING/CLOSED one, an exception on null or CONNECTING
SendResult ==
  CASE WsReady = "open" -> "ok"
    [] WsReady \in {"closing", "closed"} -> "drop"
    [] OTHER -> "throw"

ClearTimer_m(ref, pending) == pending

\* clearTimeout(handle): removes the callback if it has not fired yet
ClearTimer(ref, pending) == IF ref = "pending" THEN pending - 1 ELSE pending

HistKeep == UNCHANGED <<hStopShort, hCreateOut, hBarge, hSession>>

\* a step that calls onAddMessage not at all
Did(label) == hLast' = label /\ hEvents' = <<>>

Init ==
  /\ sock = [c \in Conns |-> "unused"]
  /\ pc = [c \in Conns |-> "none"]
  /\ wsRef = 0
  /\ sessionReadyRef = FALSE
  /\ isInCallActive = FALSE
  /\ stream = [c \in Conns |-> "none"]
  /\ ctx = [c \in Conns |-> "none"]
  /\ moduleLoaded = [c \in Conns |-> FALSE]
  /\ nodes = [c \in Conns |-> 0]
  /\ mediaStreamRef = 0
  /\ audioContextRef = 0
  /\ nodeRef = 0
  /\ ui = InitialState
  /\ hasUncommittedAudioRef = FALSE
  /\ uncommittedSamplesRef = 0
  /\ responseInProgressRef = FALSE
  /\ speechStopTimeoutRef = "null"
  /\ pendingCreateTimeoutRef = "null"
  /\ gracePending = 0
  /\ fallbackPending = 0
  /\ now = 0
  /\ currentStreamingMessageId = -1
  /\ currentStreamingContent = <<>>
  /\ userSpeechMessageId = -1
  /\ userSpeechBuffer = <<>>
  /\ messages = <<>>
  /\ hCur = [r \in {"user", "assistant"} |-> <<>>]
  /\ hEvents = <<>>
  /\ audioResponseBuffer = <<>>
  /\ audioQueueRef = <<>>
  /\ isPlayingAudioRef = FALSE
  /\ awaiting = {}
  /\ nextDelta = 0
  /\ nextChunk = 0
  /\ hLastStarted = 0
  /\ hEnqueued = <<>>
  /\ hLast = "-"
  /\ hStopShort = FALSE
  /\ hCreateOut = FALSE
  /\ hBarge = "no"
  /\ hSession = {}
  /\ capBuffer = <<>>
  /\ bufferIndex = 0
  /\ capPosted = <<>>
  /\ capFed = 0
  /\ wsState = [s \in Side |-> IF s = "webSocket" THEN "Open" ELSE "None"]
  /\ lost = {}
  /\ wire = [s \in Side |-> <<>>]
  /\ isLoading = FALSE
  /\ chatError = "none"
  /\ abortRef = 0
  /\ reqPc = [k \in 1..MaxReq |-> "none"]
  /\ reqAborted = [k \in 1..MaxReq |-> FALSE]
  /\ reqMsg = [k \in 1..MaxReq |-> -1]
  /\ reqLines = [k \in 1..MaxReq |-> <<>>]
  /\ reqReads = [k \in 1..MaxReq |-> 0]
  /\ apiKey = "unread"
  /\ hConfigs = 0
  /\ handlerPc = "key"
  /\ relayPc = [d \in Dirs |-> "none"]
  /\ relayed = [d \in Dirs |-> <<>>]
  /\ hProduced = [s \in Side |-> <<>>]
  /\ hTaken = [d \in Dirs |-> 0]

\* ------------------------------------------------------ connection lifecycle
\* reject(...) of a connect() promise that is still pending lands in the
\* catch block of connect(), which stores the message in state.error
Rejected(c, msg) ==
  /\ pc' = [pc EXCEPT ![c] = IF pc[c] = "handshake" THEN "failed" ELSE @]
  /\ ui' = IF pc[c] = "handshake" THEN [ui EXCEPT !.error = msg] ELSE ui

\* connect(): new WebSocket, handlers installed, await of the session promise
Connect ==
  /\ \E c \in Conns : sock[c] = "unused"
  /\ LET c == CHOOSE k \in Conns :
                sock[k] = "unused" /\ \A j \in Conns : sock[j] = "unused" => k <= j
     IN /\ sock' = [sock EXCEPT ![c] = "connecting"]
        /\ wsRef' = c
        /\ pc' = [pc EXCEPT ![c] = "handshake"]
  /\ ui' = [ui EXCEPT !.error = "none"]
  /\ UNCHANGED <<sessionReadyRef, isInCallActive, resVars, schedVars,
                 txVars, pbVars>>
  /\ Did("-") /\ HistKeep
  /\ UNCHANGED outerVars

\* ws.onopen
OnOpen(c) ==
  /\ sock[c] = "connecting"
  /\ sock' = [sock EXCEPT ![c] = "open"]
  /\ ui' = [ui EXCEPT !.isConnected = TRUE]
  /\ UNCHANGED <<pc, wsRef, sessionReadyRef, isInCallActive,
                 resVars, schedVars, txVars, pbVars>>
  /\ Did("-") /\ HistKeep
  /\ UNCHANGED outerVars

\* ws.onmessage, session.created / session.updated
SessionCreated(c) ==
  /\ sock[c] = "open"
  /\ sessionReadyRef' = TRUE
  /\ ui' = [ui EXCEPT !.sessionReady = TRUE]
  /\ pc' = [pc EXCEPT ![c] = IF pc[c] = "handshake" THEN "media" ELSE @]
  /\ UNCHANGED <<sock, wsRef, isInCallActive, resVars, schedVars,
                 txVars, pbVars>>
  /\ Did("-")
  /\ UNCHANGED <<hStopShort, hCreateOut, hBarge>>
  /\ hSession' = hSession \cup {c}
  /\ UNCHANGED outerVars

\* ws.onclose: the remote closed, the connection failed, or close() completed
OnClose(c) ==
  /\ sock[c] \in {"connecting", "open", "closing"}
  /\ sock' = [sock EXCEPT ![c] = "closed"]
  /\ sessionReadyRef' = FALSE
  /\ IF pc[c] = "handshake"
       THEN /\ pc' = [pc EXCEPT ![c] = "failed"]
            /\ ui' = [ui EXCEPT !.isConnected = FALSE, !.isRecording = "false",
                                !.sessionReady = FALSE, !.error = "closed"]
       ELSE /\ pc' = pc
            /\ ui' = [ui EXCEPT !.isConnected = FALSE, !.isRecording = "false",
                                !.sessionReady = FALSE]
  /\ UNCHANGED <<wsRef, isInCallActive, resVars, schedVars,
                 txVars, pbVars>>
  /\ Did("-") /\ HistKeep
  /\ UNCHANGED outerVars

\* ws.onerror: the connection failed; the close event follows
OnError(c) ==
  /\ sock[c] \in {"connecting", "open"}
  /\ sock' = [sock EXCEPT ![c] = "closing"]
  /\ pc' = [pc EXCEPT ![c] = IF pc[c] = "handshake" THEN "failed" ELSE @]
  /\ ui' = [ui EXCEPT !.error = "ws"]
  /\ UNCHANGED <<wsRef, sessionReadyRef, isInCallActive,
                 resVars, schedVars, txVars, pbVars>>
  /\ Did("-") /\ HistKeep
  /\ UNCHANGED outerVars

\* the 10 s setTimeout of connect(); once the promise is settled the
\* callback changes nothing, so it is modelled only while the promise is pending
HandshakeTimeout(c) ==
  /\ pc[c] = "handshake"
  /\ Rejected(c, "timeout")
  /\ UNCHANGED <<sock, wsRef, sessionReadyRef, isInCallActive, resVars,
                 schedVars, txVars, pbVars>>
  /\ Did("-") /\ HistKeep
  /\ UNCHANGED outerVars

\* connect() resumes: getUserMedia resolved, new AudioContext
GetUserMediaOk(c) ==
  /\ pc[c] = "media"
  /\ pc' = [pc EXCEPT ![c] = "module"]
  /\ stream' = [stream EXCEPT ![c] = "live"]
  /\ mediaStreamRef' = c
  /\ ctx' = [ctx EXCEPT ![c] = "open"]
  /\ audioContextRef' = c
  /\ UNCHANGED <<sock, wsRef, sessionReadyRef, isInCallActive,
                 moduleLoaded, nodes, nodeRef, ui, schedVars, txVars, pbVars>>
  /\ Did("-") /\ HistKeep
  /\ UNCHANGED outerVars

\* getUserMedia rejected: the catch block of connect()
GetUserMediaFail(c) ==
  /\ pc[c] = "media"
  /\ pc' = [pc EXCEPT ![c] = "failed"]
  /\ ui' = [ui EXCEPT !.error = "mic"]
  /\ UNCHANGED <<sock, wsRef, sessionReadyRef, isInCallActive,
                 resVars, schedVars, txVars, pbVars>>
  /\ Did("-") /\ HistKeep
  /\ UNCHANGED outerVars

\* audioWorklet.addModule resolved; the analyser is set up
AddModuleOk(c) ==
  /\ pc[c] = "module"
  /\ ctx[c] = "open"
  /\ pc' = [pc EXCEPT ![c] = "done"]
  /\ moduleLoaded' = [moduleLoaded EXCEPT ![c] = TRUE]
  /\ UNCHANGED <<sock, wsRef, sessionReadyRef, isInCallActive,
                 stream, ctx, nodes, mediaStreamRef, audioContextRef, nodeRef,
                 ui, schedVars, txVars, pbVars>>
  /\ Did("-") /\ HistKeep
  /\ UNCHANGED outerVars

\* audioWorklet.addModule rejected: error shown, connect() returns
AddModuleFail(c) ==
  /\ pc[c] = "module"
  /\ pc' = [pc EXCEPT ![c] = "done"]
  /\ ui' = [ui EXCEPT !.error = "worklet"]
  /\ UNCHANGED <<sock, wsRef, sessionReadyRef, isInCallActive,
                 resVars, schedVars, txVars, pbVars>>
  /\ Did("-") /\ HistKeep
  /\ UNCHANGED outerVars

\* -------------------------------------------------------------- hook calls
Sum(f) == LET RECURSIVE S(_)
              S(D) == IF D = {} THEN 0
                      ELSE LET d == CHOOSE x \in D : TRUE IN f[d] + S(D \ {d})
          IN S(DOMAIN f)

\* !wsRef.current || wsRef.current.readyState !== WebSocket.OPEN
NotConnected_m == WsReady # "connecting"

NotConnected == WsReady # "open"

\* startCall()
StartCall ==
  /\ IF NotConnected
       THEN /\ ui' = [ui EXCEPT !.error = "notconnected"]
            /\ UNCHANGED <<isInCallActive, nodes, nodeRef>>
     ELSE IF ~sessionReadyRef
       THEN /\ ui' = [ui EXCEPT !.error = "notready"]
            /\ UNCHANGED <<isInCallActive, nodes, nodeRef>>
     ELSE IF mediaStreamRef = 0
       THEN /\ ui' = [ui EXCEPT !.error = "nomic"]
            /\ UNCHANGED <<isInCallActive, nodes, nodeRef>>
     ELSE /\ isInCallActive' = TRUE
          /\ ui' = [ui EXCEPT !.isInCall = TRUE, !.error = "none"]
          /\ IF moduleLoaded[audioContextRef]
               THEN /\ Sum(nodes) < MaxNodes
                    /\ nodes' = [nodes EXCEPT ![audioContextRef] = @ + 1]
                    /\ nodeRef' = audioContextRef
               ELSE \* new AudioWorkletNode throws: processor not registered
                    UNCHANGED <<nodes, nodeRef>>
  /\ UNCHANGED <<connVars, stream, ctx, moduleLoaded, mediaStreamRef,
                 audioContextRef, schedVars, txVars, pbVars>>
  /\ Did(IF WsReady = "open" /\ sessionReadyRef /\ mediaStreamRef # 0
           THEN "startcall" ELSE "startcall.refused")
  /\ HistKeep
  /\ UNCHANGED outerVars

\* endCall()
EndCall ==
  /\ isInCallActive' = FALSE
  /\ nodes' = IF nodeRef # 0 THEN [nodes EXCEPT ![nodeRef] = @ - 1] ELSE nodes
  /\ nodeRef' = 0
  /\ ui' = [ui EXCEPT !.isInCall = FALSE]
  /\ UNCHANGED <<connVars, stream, ctx, moduleLoaded, mediaStreamRef,
                 audioContextRef, schedVars, txVars, pbVars>>
  /\ Did("endcall") /\ HistKeep
  /\ UNCHANGED outerVars

\* disconnect()
Disconnect ==
  /\ sock' = IF wsRef # 0 /\ sock[wsRef] \in {"connecting", "open"}
               THEN [sock EXCEPT ![wsRef] = "closing"] ELSE sock
  /\ wsRef' = 0
  /\ stream' = IF mediaStreamRef # 0
                 THEN [stream EXCEPT ![mediaStreamRef] = "stopped"] ELSE stream
  /\ mediaStreamRef' = 0
  /\ LET n1 == IF nodeRef # 0 THEN [nodes EXCEPT ![nodeRef] = @ - 1] ELSE nodes
     IN nodes' = IF audioContextRef # 0
                   THEN [n1 EXCEPT ![audioContextRef] = 0] ELSE n1
  /\ nodeRef' = 0
  /\ ctx' = IF audioContextRef # 0
              THEN [ctx EXCEPT ![audioContextRef] = "closed"] ELSE ctx
  /\ audioContextRef' = 0
  /\ gracePending' = ClearTimer(speechStopTimeoutRef, gracePending)
  /\ speechStopTimeoutRef' = "null"
  /\ fallbackPending' = ClearTimer(pendingCreateTimeoutRef, fallbackPending)
  /\ pendingCreateTimeoutRef' = "null"
  /\ sessionReadyRef' = FALSE
  /\ isInCallActive' = FALSE
  /\ audioResponseBuffer' = <<>>
  /\ currentStreamingMessageId' = -1
  /\ currentStreamingContent' = <<>>
  /\ userSpeechBuffer' = <<>>
  /\ userSpeechMessageId' = -1
  /\ hasUncommittedAudioRef' = FALSE
  /\ responseInProgressRef' = FALSE
  /\ uncommittedSamplesRef' = 0
  /\ ui' = InitialState
  /\ UNCHANGED <<pc, moduleLoaded, now, messages,
                 audioQueueRef, isPlayingAudioRef, awaiting, nextDelta,
                 nextChunk, hLastStarted, hEnqueued>>
  /\ hCur' = [r \in {"user", "assistant"} |-> <<>>]
  /\ Did("disconnect")
  /\ hCreateOut' = FALSE
  /\ hBarge' = "no"
  /\ hStopShort' = FALSE
  /\ UNCHANGED hSession
  /\ UNCHANGED outerVars

\* -------------------------------------------------------- capture to append
\* the condition under which port.onmessage sends the frame
FrameSendable_m == TRUE

FrameSendable_m2 == wsRef # 0

FrameSendable == WsReady = "open" /\ sessionReadyRef

\* audioWorkletNode.port.onmessage with one full block of the capturer
Frame ==
  /\ \E c \in Conns : ctx[c] = "open" /\ nodes[c] > 0
  /\ IF ~isInCallActive
       THEN UNCHANGED <<hasUncommittedAudioRef, uncommittedSamplesRef, ui>>
     ELSE IF FrameSendable
       THEN /\ uncommittedSamplesRef + bufferSize <= MaxSamples
            /\ hasUncommittedAudioRef' = TRUE
            /\ uncommittedSamplesRef' = uncommittedSamplesRef + bufferSize
            /\ ui' = ui
     ELSE /\ UNCHANGED <<hasUncommittedAudioRef, uncommittedSamplesRef>>
          /\ ui' = [ui EXCEPT !.isRecording = "false", !.error = "lost"]
  /\ UNCHANGED <<connVars, isInCallActive, resVars, responseInProgressRef,
                 speechStopTimeoutRef, pendingCreateTimeoutRef, gracePending,
                 fallbackPending, txVars, pbVars>>
  /\ Did(IF isInCallActive /\ ~(WsReady = "open" /\ sessionReadyRef)
           THEN "frame.lost" ELSE "-")
  /\ HistKeep
  /\ UNCHANGED outerVars

\* ---------------------------------------------------------- transcript store
Roles == {"user", "assistant"}
\* message.delta of the assistant transcript and of the user transcript
Deltas == {<<"a">>, <<" ">>}
UserDeltas == {<<"a">>}

IsWs(ch) == ch = " "

\* String.prototype.trim
RECURSIVE TrimLeft(_)
TrimLeft(t) == IF t # <<>> /\ IsWs(Head(t)) THEN TrimLeft(Tail(t)) ELSE t

RECURSIVE TrimRight(_)
TrimRight(t) ==
  IF t # <<>> /\ IsWs(t[Len(t)]) THEN TrimRight(SubSeq(t, 1, Len(t) - 1)) ELSE t

Trim(t) == TrimRight(TrimLeft(t))

IsPrefix(p, t) == Len(p) <= Len(t) /\ SubSeq(t, 1, Len(p)) = p

\* the argument of onAddMessage; messageId -1 and isUpdate FALSE are "absent"
Event(role, content, isStreaming, messageId, isUpdate) ==
  [role |-> role, content |-> content, isStreaming |-> isStreaming,
   messageId |-> messageId, isUpdate |-> isUpdate]

\* addMessage of useChatStream, as called by the onAddMessage of App
addMessage(msgs, e) ==
  LET messageId == IF e.messageId # -1 THEN e.messageId ELSE now IN
  IF e.isUpdate
    THEN [i \in 1..Len(msgs) |->
            IF msgs[i].id = messageId
              THEN [msgs[i] EXCEPT !.content = Trim(e.content),
                                   !.isStreaming = e.isStreaming]
              ELSE msgs[i]]
    ELSE Append(msgs, [id |-> messageId, role |-> e.role,
                       content |-> Trim(e.content),
                       isStreaming |-> e.isStreaming])

\* one onAddMessage call: the store changes and the call is recorded;
\* stays is whether the cursor of the role is open when the handler returns
Emit(e, stays) ==
  /\ ~e.isUpdate => Len(messages) < MaxMsgs
  /\ messages' = addMessage(messages, e)
  /\ hEvents' = <<e>>
  /\ hCur' = [hCur EXCEPT ![e.role] = IF stays THEN e.content ELSE <<>>]

\* buffer += message.delta
Accumulate_m(buf, d) == d

Accumulate(buf, d) == buf \o d

\* Date.now() advances
Tick ==
  /\ now < MaxClock
  /\ now' = now + 1
  /\ UNCHANGED <<connVars, isInCallActive, resVars, ui, schedVars,
                 currentStreamingMessageId, currentStreamingContent,
                 userSpeechMessageId, userSpeechBuffer, messages, hCur,
                 pbVars>>
  /\ Did("-") /\ HistKeep
  /\ UNCHANGED outerVars

\* ws.onmessage, response.output_audio_transcript.delta
AssistantDelta(c, d) ==
  /\ sock[c] = "open"
  /\ Len(currentStreamingContent) + Len(d) <= MaxText
  /\ currentStreamingContent' = Accumulate(currentStreamingContent, d)
  /\ IF currentStreamingMessageId = -1
       THEN /\ currentStreamingMessageId' = now
            /\ Emit(Event("assistant", currentStreamingContent', TRUE,
                          now, FALSE), TRUE)
       ELSE /\ UNCHANGED currentStreamingMessageId
            /\ Emit(Event("assistant", currentStreamingContent', TRUE,
                          currentStreamingMessageId, TRUE), TRUE)
  /\ UNCHANGED <<connVars, isInCallActive, resVars, ui, schedVars, now,
                 userSpeechMessageId, userSpeechBuffer, pbVars>>
  /\ hLast' = "assistant.delta" /\ HistKeep
  /\ UNCHANGED outerVars

\* ws.onmessage, conversation.item.input_audio_transcript.delta
UserDelta(c, d) ==
  /\ sock[c] = "open"
  /\ Len(userSpeechBuffer) + Len(d) <= MaxText
  /\ userSpeechBuffer' = Accumulate(userSpeechBuffer, d)
  /\ IF userSpeechMessageId = -1
       THEN /\ userSpeechMessageId' = now
            /\ Emit(Event("user", userSpeechBuffer', TRUE, now, FALSE), TRUE)
       ELSE /\ UNCHANGED userSpeechMessageId
            /\ Emit(Event("user", userSpeechBuffer', TRUE,
                          userSpeechMessageId, TRUE), TRUE)
  /\ UNCHANGED <<connVars, isInCallActive, resVars, ui, schedVars, now,
                 currentStreamingMessageId, currentStreamingContent, pbVars>>
  /\ hLast' = "user.delta" /\ HistKeep
  /\ UNCHANGED outerVars

\* ------------------------------------------------------------ commit scheduler
ErrorCodes == {"input_audio_buffer_commit_empty",
               "conversation_already_has_active_response", "other"}

\* if (code === 'input_audio_buffer_commit_empty') in the error branch
CommitEmpty_m(code) == FALSE

CommitEmpty(code) == code = "input_audio_buffer_commit_empty"

\* ws.onmessage, error
ErrorEvent(c, code) ==
  /\ sock[c] = "open"
  /\ IF CommitEmpty(code)
       THEN /\ hasUncommittedAudioRef' = FALSE
            /\ uncommittedSamplesRef' = 0
            /\ UNCHANGED <<responseInProgressRef, ui, pc>>
     ELSE IF code = "conversation_already_has_active_response"
       THEN UNCHANGED <<hasUncommittedAudioRef, uncommittedSamplesRef,
                        responseInProgressRef, ui, pc>>
     ELSE /\ responseInProgressRef' = FALSE
          /\ hasUncommittedAudioRef' = FALSE
          /\ UNCHANGED uncommittedSamplesRef
          /\ pc' = [pc EXCEPT ![c] = IF pc[c] = "handshake" THEN "failed" ELSE @]
          /\ ui' = [ui EXCEPT !.error = "session"]
  /\ UNCHANGED <<sock, wsRef, sessionReadyRef, isInCallActive,
                 resVars, speechStopTimeoutRef, pendingCreateTimeoutRef,
                 gracePending, fallbackPending, txVars, pbVars>>
  /\ Did(CASE code = "input_audio_buffer_commit_empty" -> "error.empty"
           [] code = "conversation_already_has_active_response" -> "error.active"
           [] OTHER -> "error.fatal")
  /\ hBarge' = IF code = "other" /\ hBarge = "live" THEN "ended" ELSE hBarge
  /\ UNCHANGED <<hStopShort, hCreateOut>>
  /\ UNCHANGED hSession
  /\ UNCHANGED outerVars

\* ws.onmessage, response.created
ResponseCreated(c) ==
  /\ sock[c] = "open"
  /\ responseInProgressRef' = TRUE
  /\ fallbackPending' = ClearTimer(pendingCreateTimeoutRef, fallbackPending)
  /\ pendingCreateTimeoutRef' = "null"
  /\ UNCHANGED <<connVars, isInCallActive, resVars, ui,
                 hasUncommittedAudioRef, uncommittedSamplesRef,
                 speechStopTimeoutRef, gracePending, txVars, pbVars>>
  /\ Did("response.created") /\ HistKeep
  /\ UNCHANGED outerVars

\* ws.onmessage, response.cancelled
ResponseCancelled(c) ==
  /\ sock[c] = "open"
  /\ responseInProgressRef' = FALSE
  /\ UNCHANGED <<connVars, isInCallActive, resVars, ui,
                 hasUncommittedAudioRef, uncommittedSamplesRef,
                 speechStopTimeoutRef, pendingCreateTimeoutRef, gracePending,
                 fallbackPending, txVars, pbVars>>
  /\ Did("-")
  /\ hCreateOut' = FALSE
  /\ hBarge' = IF hBarge = "live" THEN "ended" ELSE hBarge
  /\ UNCHANGED hStopShort
  /\ UNCHANGED hSession
  /\ UNCHANGED outerVars

\* ws.onmessage, response.done
ResponseDone(c) ==
  /\ sock[c] = "open"
  /\ ui' = [ui EXCEPT !.isPlayingResponse = FALSE,
                      !.isReceivingResponse = FALSE]
  /\ responseInProgressRef' = FALSE
  /\ IF currentStreamingMessageId # -1
       THEN Emit(Event("assistant", currentStreamingContent, FALSE,
                       currentStreamingMessageId, TRUE), FALSE)
       ELSE /\ hCur' = [hCur EXCEPT !["assistant"] = <<>>]
            /\ hEvents' = <<>>
            /\ UNCHANGED messages
  /\ audioResponseBuffer' = <<>>
  /\ currentStreamingMessageId' = -1
  /\ currentStreamingContent' = <<>>
  /\ UNCHANGED <<connVars, isInCallActive, resVars, hasUncommittedAudioRef,
                 uncommittedSamplesRef, speechStopTimeoutRef,
                 pendingCreateTimeoutRef, gracePending, fallbackPending, now,
                 userSpeechMessageId, userSpeechBuffer, audioQueueRef,
                 isPlayingAudioRef, awaiting, nextDelta, nextChunk,
                 hLastStarted, hEnqueued>>
  /\ hLast' = "-"
  /\ hCreateOut' = FALSE
  /\ hBarge' = IF hBarge = "live" THEN "ended" ELSE hBarge
  /\ UNCHANGED hStopShort
  /\ UNCHANGED hSession
  /\ UNCHANGED outerVars

\* ws.onmessage, input_audio_buffer.speech_started
SpeechStarted(c) ==
  /\ sock[c] = "open"
  /\ userSpeechMessageId' = -1
  /\ userSpeechBuffer' = <<>>
  /\ gracePending' = ClearTimer(speechStopTimeoutRef, gracePending)
  /\ speechStopTimeoutRef' = "null"
  /\ fallbackPending' = ClearTimer(pendingCreateTimeoutRef, fallbackPending)
  /\ pendingCreateTimeoutRef' = "null"
  /\ uncommittedSamplesRef' = 0
  /\ UNCHANGED <<connVars, isInCallActive, resVars, ui,
                 hasUncommittedAudioRef, responseInProgressRef, now,
                 currentStreamingMessageId, currentStreamingContent, messages,
                 pbVars>>
  /\ hCur' = [hCur EXCEPT !["user"] = <<>>]
  /\ Did("-")
  /\ hBarge' = IF responseInProgressRef THEN "live" ELSE "no"
  /\ hStopShort' = FALSE
  /\ UNCHANGED hCreateOut
  /\ UNCHANGED hSession
  /\ UNCHANGED outerVars

\* if (responseInProgressRef.current) in the speech_stopped handler
CancelNeeded_m == FALSE

CancelNeeded_m2 == TRUE

CancelNeeded == responseInProgressRef

\* ws.onmessage, input_audio_buffer.speech_stopped
SpeechStopped(c) ==
  /\ sock[c] = "open"
  /\ LET stays == CancelNeeded /\ SendResult = "throw" IN
     IF userSpeechBuffer # <<>>
       THEN Emit(Event("user", userSpeechBuffer, FALSE, -1, FALSE), stays)
       ELSE /\ hCur' = [hCur EXCEPT !["user"] = IF stays THEN @ ELSE <<>>]
            /\ hEvents' = <<>>
            /\ UNCHANGED messages
  /\ IF CancelNeeded /\ SendResult = "throw"
       THEN \* send() threw inside the handler's try block
            /\ UNCHANGED <<speechStopTimeoutRef, gracePending,
                           userSpeechMessageId, userSpeechBuffer, hBarge,
                           hStopShort>>
            /\ hLast' = "stop.threw"
       ELSE /\ gracePending' = ClearTimer(speechStopTimeoutRef, gracePending) + 1
            /\ speechStopTimeoutRef' = "pending"
            /\ userSpeechMessageId' = -1
            /\ userSpeechBuffer' = <<>>
            /\ hBarge' = IF CancelNeeded THEN "no" ELSE hBarge
            /\ hStopShort' = (uncommittedSamplesRef < MIN_COMMIT_SAMPLES)
            /\ hLast' = IF CancelNeeded /\ SendResult = "ok"
                          THEN IF hBarge = "live" THEN "cancel.barge"
                               ELSE "stop.cancel"
                        ELSE IF CancelNeeded THEN "stop.dropped"
                        ELSE "stop"
  /\ UNCHANGED <<connVars, isInCallActive, resVars, ui,
                 hasUncommittedAudioRef, uncommittedSamplesRef,
                 responseInProgressRef, pendingCreateTimeoutRef,
                 fallbackPending, now, currentStreamingMessageId,
                 currentStreamingContent, pbVars>>
  /\ UNCHANGED hCreateOut
  /\ UNCHANGED hSession
  /\ UNCHANGED outerVars

\* the condition of the grace-window callback
CommitAllowed_m == hasUncommittedAudioRef

CommitAllowed_m2 == hasUncommittedAudioRef /\ uncommittedSamplesRef > 0

CommitAllowed ==
  hasUncommittedAudioRef /\ uncommittedSamplesRef >= MIN_COMMIT_SAMPLES

\* the callback of the COMMIT_GRACE_MS timer
GraceFire ==
  /\ gracePending > 0
  /\ gracePending' = gracePending - 1
  /\ IF CommitAllowed /\ SendResult = "throw"
       THEN /\ speechStopTimeoutRef' =
                 IF speechStopTimeoutRef = "pending" THEN "stale"
                 ELSE speechStopTimeoutRef
            /\ UNCHANGED <<hasUncommittedAudioRef, uncommittedSamplesRef,
                           pendingCreateTimeoutRef, fallbackPending>>
            /\ Did("grace.threw")
     ELSE IF CommitAllowed
       THEN /\ hasUncommittedAudioRef' = FALSE
            /\ uncommittedSamplesRef' = 0
            /\ IF ~responseInProgressRef
                 THEN /\ fallbackPending' =
                           ClearTimer(pendingCreateTimeoutRef, fallbackPending) + 1
                      /\ pendingCreateTimeoutRef' = "pending"
                 ELSE UNCHANGED <<pendingCreateTimeoutRef, fallbackPending>>
            /\ speechStopTimeoutRef' = "null"
            /\ Did(IF SendResult # "ok" THEN "grace.dropped"
                   ELSE IF hStopShort THEN "grace.sent.short"
                   ELSE "grace.sent")
     ELSE /\ speechStopTimeoutRef' = "null"
          /\ UNCHANGED <<hasUncommittedAudioRef, uncommittedSamplesRef,
                         pendingCreateTimeoutRef, fallbackPending>>
          /\ Did("grace.skipped")
  /\ UNCHANGED <<connVars, isInCallActive, resVars, ui, responseInProgressRef,
                 txVars, pbVars>>
  /\ hStopShort' = FALSE
  /\ hBarge' = IF CommitAllowed /\ SendResult # "throw" THEN "no" ELSE hBarge
  /\ UNCHANGED hCreateOut
  /\ UNCHANGED hSession
  /\ UNCHANGED outerVars

\* the callback of the CREATE_FALLBACK_MS timer
FallbackFire ==
  /\ fallbackPending > 0
  /\ fallbackPending' = fallbackPending - 1
  /\ IF ~responseInProgressRef /\ SendResult = "throw"
       THEN /\ pendingCreateTimeoutRef' =
                 IF pendingCreateTimeoutRef = "pending" THEN "stale"
                 ELSE pendingCreateTimeoutRef
            /\ UNCHANGED <<responseInProgressRef, hCreateOut>>
            /\ Did("-")
     ELSE IF ~responseInProgressRef
       THEN /\ responseInProgressRef' = TRUE
            /\ pendingCreateTimeoutRef' = "null"
            /\ hCreateOut' = (hCreateOut \/ SendResult = "ok")
            /\ Did(IF SendResult = "ok" THEN "fallback.sent" ELSE "-")
     ELSE /\ pendingCreateTimeoutRef' = "null"
          /\ UNCHANGED <<responseInProgressRef, hCreateOut>>
          /\ Did("-")
  /\ UNCHANGED <<connVars, isInCallActive, resVars, ui,
                 hasUncommittedAudioRef, uncommittedSamplesRef,
                 speechStopTimeoutRef, gracePending, txVars, pbVars>>
  /\ UNCHANGED <<hStopShort, hBarge>>
  /\ UNCHANGED hSession
  /\ UNCHANGED outerVars

\* ------------------------------------------------------------ playback queue
PLAYBACK_THRESHOLD == 1500
DeltaLens == {750, 1500}

\* audioResponseBuffer.current.length
RECURSIVE BufLen(_)
BufLen(b) == IF b = <<>> THEN 0 ELSE Head(b).len + BufLen(Tail(b))

\* if (isPlayingAudioRef.current ...) return, the entry guard of processAudioQueue
LoopBusy_m == FALSE

LoopBusy == isPlayingAudioRef

\* audioQueueRef.current.shift()
Dequeue(q) == Head(q)

\* the while loop of processAudioQueue from its head up to the next await:
\* every chunk throws while there is no audio context, else the first one
\* starts and the loop waits for its onended.  Yields the queue, the playing
\* flag, the started source (or <<>>) and the isPlayingResponse observable.
RunLoop(q, uiPlaying) ==
  IF q = <<>>
    THEN [queue |-> <<>>, playing |-> FALSE, started |-> <<>>,
          uiPlaying |-> FALSE]
  ELSE IF audioContextRef = 0
    THEN [queue |-> <<>>, playing |-> FALSE, started |-> <<>>,
          uiPlaying |-> FALSE]
  ELSE [queue |-> Tail(q), playing |-> TRUE,
        started |-> <<[chunk |-> Dequeue(q), ctx |-> audioContextRef]>>,
        uiPlaying |-> uiPlaying]

\* processAudioQueue() called with queue q and React state uiNow
ProcessAudioQueue(q, uiNow) ==
  IF LoopBusy \/ q = <<>>
    THEN /\ audioQueueRef' = q
         /\ UNCHANGED <<isPlayingAudioRef, awaiting, hLastStarted>>
         /\ ui' = uiNow
    ELSE LET r == RunLoop(q, TRUE) IN
         /\ audioQueueRef' = r.queue
         /\ isPlayingAudioRef' = r.playing
         /\ awaiting' = awaiting \cup {r.started[i] : i \in 1..Len(r.started)}
         /\ hLastStarted' = IF r.started # <<>> THEN r.started[1].chunk.n
                            ELSE hLastStarted
         /\ ui' = [uiNow EXCEPT !.isPlayingResponse = r.uiPlaying]

\* addAudioToQueue(buffer); ok is whether the payload decodes (atob and the
\* Int16Array view both throw on a malformed payload)
AddAudioToQueue(b, ok, uiNow) ==
  IF audioContextRef = 0
    THEN /\ ui' = uiNow
         /\ UNCHANGED <<audioQueueRef, isPlayingAudioRef, awaiting, nextChunk,
                        hLastStarted, hEnqueued>>
  ELSE IF ~ok
    THEN /\ ui' = [uiNow EXCEPT !.error = "audio"]
         /\ UNCHANGED <<audioQueueRef, isPlayingAudioRef, awaiting, nextChunk,
                        hLastStarted, hEnqueued>>
  ELSE /\ nextChunk < MaxChunks
       /\ nextChunk' = nextChunk + 1
       /\ hEnqueued' = hEnqueued \o [i \in 1..Len(b) |-> b[i].id]
       /\ ProcessAudioQueue(
            Append(audioQueueRef, [n |-> nextChunk + 1, data |-> b]), uiNow)

\* ws.onmessage, response.output_audio.delta
AudioDelta(c, len, ok) ==
  /\ sock[c] = "open"
  /\ nextDelta < MaxDeltas
  /\ nextDelta' = nextDelta + 1
  /\ LET b == Append(audioResponseBuffer, [id |-> nextDelta + 1, len |-> len])
         u == [ui EXCEPT !.isReceivingResponse = TRUE]
     IN IF BufLen(b) >= PLAYBACK_THRESHOLD
          THEN /\ AddAudioToQueue(b, ok, u)
               /\ audioResponseBuffer' = <<>>
          ELSE /\ ok
               /\ audioResponseBuffer' = b
               /\ ui' = u
               /\ UNCHANGED <<audioQueueRef, isPlayingAudioRef, awaiting,
                              nextChunk, hLastStarted, hEnqueued>>
  /\ UNCHANGED <<connVars, isInCallActive, resVars, schedVars, txVars>>
  /\ Did("-") /\ HistKeep
  /\ UNCHANGED outerVars

\* ws.onmessage, response.output_audio.done
AudioDone(c, ok) ==
  /\ sock[c] = "open"
  /\ IF audioResponseBuffer # <<>>
       THEN AddAudioToQueue(audioResponseBuffer, ok, ui)
       ELSE /\ ok
            /\ UNCHANGED <<ui, audioQueueRef, isPlayingAudioRef, awaiting,
                           nextChunk, hLastStarted, hEnqueued>>
  /\ UNCHANGED <<audioResponseBuffer, nextDelta>>
  /\ UNCHANGED <<connVars, isInCallActive, resVars, schedVars, txVars>>
  /\ Did("-") /\ HistKeep
  /\ UNCHANGED outerVars

\* source.onended of a started chunk: its drain loop resumes
OnEnded(a) ==
  /\ a \in awaiting
  /\ LET r == RunLoop(audioQueueRef, ui.isPlayingResponse) IN
     /\ audioQueueRef' = r.queue
     /\ isPlayingAudioRef' = r.playing
     /\ awaiting' = (awaiting \ {a}) \cup
                      {r.started[i] : i \in 1..Len(r.started)}
     /\ hLastStarted' = IF r.started # <<>> THEN r.started[1].chunk.n
                        ELSE hLastStarted
     /\ ui' = [ui EXCEPT !.isPlayingResponse = r.uiPlaying]
  /\ UNCHANGED <<audioResponseBuffer, nextDelta, nextChunk, hEnqueued>>
  /\ UNCHANGED <<connVars, isInCallActive, resVars, schedVars, txVars>>
  /\ Did("onended") /\ HistKeep
  /\ UNCHANGED outerVars

\* ------------------------------------------------------------ frame capturer
\* lengths of inputs[0][0] in one process() call
QuantumLens == {0, 1, 128, 2000}

\* if (this.bufferIndex >= this.bufferSize)
BlockFull_m(idx) == idx > bufferSize

BlockFull(idx) == idx >= bufferSize

\* this.buffer[k] = v on a Float32Array: a write past the end is ignored
Store(buf, k, v) == IF k + 1 \in DOMAIN buf THEN [buf EXCEPT ![k + 1] = v] ELSE buf

\* one pass of the body of the for loop of process(), with sample v; st is
\* the processor with the messages it has posted
CopySample(st, v) ==
  LET buf == Store(st.buffer, st.bufferIndex, v)
      idx == st.bufferIndex + 1
  IN IF BlockFull(idx)
       THEN [buffer |-> buf, bufferIndex |-> 0, posted |-> Append(st.posted, buf)]
       ELSE [buffer |-> buf, bufferIndex |-> idx, posted |-> st.posted]

\* the for loop of process() over the samples lo..hi of inputChannel, in
\* order: the first half, then the second half from where the first ended.
\* The test of the first half's index, which holds always, makes TLC
\* compute the first half before it enters the second.
RECURSIVE CopyInput(_, _, _, _)
CopyInput(st, inputChannel, lo, hi) ==
  IF lo > hi THEN st
  ELSE IF lo = hi THEN CopySample(st, inputChannel[lo])
  ELSE LET mid == (lo + hi) \div 2
           first == CopyInput(st, inputChannel, lo, mid)
       IN IF first.bufferIndex >= 0
            THEN CopyInput(first, inputChannel, mid + 1, hi)
            ELSE first

\* constructor of AudioProcessor
AudioProcessor ==
  /\ capBuffer = <<>>
  /\ capBuffer' = [k \in 1..bufferSize |-> 0]
  /\ bufferIndex' = 0
  /\ UNCHANGED <<capPosted, capFed>>
  /\ UNCHANGED <<connVars, isInCallActive, resVars, ui, schedVars, txVars,
                 pbVars, histVars, relayVars, chatVars>>

\* process(inputs, outputs, parameters) with len samples in inputs[0][0]
Process(len) ==
  /\ capBuffer # <<>>
  /\ capFed + len <= MaxInput
  /\ LET inputChannel == [j \in 1..len |-> capFed + j]
         r == CopyInput([buffer |-> capBuffer, bufferIndex |-> bufferIndex,
                         posted |-> capPosted], inputChannel, 1, len)
     IN /\ capBuffer' = r.buffer
        /\ bufferIndex' = r.bufferIndex
        /\ capPosted' = r.posted
  /\ capFed' = capFed + len
  /\ UNCHANGED <<connVars, isInCallActive, resVars, ui, schedVars, txVars,
                 pbVars, histVars, relayVars, chatVars>>

\* --------------------------------------------------------------------- relay
hookVars == <<connVars, isInCallActive, resVars, ui, schedVars, txVars,
              pbVars, histVars, capVars, chatVars>>

\* message type and end-of-message flag of the data frames a peer sends
RelayFrames == {[type |-> "Text", eom |-> TRUE], [type |-> "Binary", eom |-> FALSE]}

\* the close frame on the wire
CloseFrame == [type |-> "Close", eom |-> TRUE, payload |-> 0]

\* source and destination of RelayMessages(source, destination, direction)
Source(d) == IF d = "Client->OpenAI" THEN "webSocket" ELSE "openAiWebSocket"
Destination(d) == IF d = "Client->OpenAI" THEN "openAiWebSocket" ELSE "webSocket"

\* the while condition of RelayMessages under socket states st: the task
\* receives again or leaves the loop
LoopOrEnd(st, d) ==
  IF st[Source(d)] = "Open" /\ st[Destination(d)] = "Open" THEN "recv" ELSE "done"

\* what SendAsync is given for a received result
Forwarded_m(result) == [result EXCEPT !.eom = TRUE]

Forwarded(result) == result

\* if (socket.State == WebSocketState.Open) before CloseAsync in the finally block
NeedsClose(s) == wsState[s] = "Open"

\* whether a frame written to socket s goes out (ok) or the write throws:
\* it can throw only on a lost connection, and a throwing write leaves the
\* socket's State as it was
SendOutcome(s, ok) == ok \/ s \in lost

\* a CloseAsync on socket s has sent its close frame and awaits the peer's
Closing(s) ==
  \/ handlerPc = "close1" /\ s = "openAiWebSocket"
  \/ handlerPc \in {"close2", "closekey"} /\ s = "webSocket"
  \/ \E d \in Dirs : relayPc[d] = "closing" /\ Destination(d) = s

\* values of OPENAI_API_KEY ?? configuration["OpenAI:ApiKey"]
Keys == {"null", "", "sk"}

IsNullOrEmpty_m(k) == FALSE

\* string.IsNullOrEmpty(apiKey)
IsNullOrEmpty(k) == k \in {"null", ""}

\* HandleRealtimeConnection up to its first await: the key is read; without
\* one the client socket is closed (CloseAsync sends the close frame, ok, or
\* throws) and the handler returns
ReadKey(k, ok) ==
  /\ handlerPc = "key"
  /\ apiKey' = k
  /\ IF IsNullOrEmpty(k)
       THEN /\ SendOutcome("webSocket", ok)
            /\ IF ok
                 THEN /\ wsState' = [wsState EXCEPT !["webSocket"] = "CloseSent"]
                      /\ handlerPc' = "closekey"
                 ELSE /\ handlerPc' = "done"
                      /\ UNCHANGED wsState
       ELSE /\ ok
            /\ handlerPc' = "connect"
            /\ UNCHANGED wsState
  /\ UNCHANGED <<lost, wire, relayPc, relayed, hProduced, hTaken, hConfigs>>
  /\ UNCHANGED hookVars

\* await openAiWebSocket.ConnectAsync(...)
ConnectAsync(ok) ==
  /\ handlerPc = "connect"
  /\ IF ok
       THEN /\ wsState' = [wsState EXCEPT !["openAiWebSocket"] = "Open"]
            /\ handlerPc' = "config"
       ELSE /\ wsState' = [wsState EXCEPT !["openAiWebSocket"] = "Closed"]
            /\ handlerPc' = "finally1"
  /\ UNCHANGED <<lost, wire, relayPc, relayed, hProduced, hTaken>>
  /\ UNCHANGED <<apiKey, hConfigs>>
  /\ UNCHANGED hookVars

\* the session configuration is sent and both RelayMessages tasks start,
\* each running up to its first ReceiveAsync
SendConfig(ok) ==
  /\ handlerPc = "config"
  /\ SendOutcome("openAiWebSocket", ok)
  /\ IF ok
       THEN /\ relayPc' = [d \in Dirs |-> LoopOrEnd(wsState, d)]
            /\ handlerPc' = "whenany"
            /\ hConfigs' = hConfigs + 1
       ELSE /\ handlerPc' = "finally1"
            /\ UNCHANGED <<relayPc, hConfigs>>
  /\ UNCHANGED <<wsState, lost, wire, relayed, hProduced, hTaken>>
  /\ UNCHANGED apiKey
  /\ UNCHANGED hookVars

\* await Task.WhenAny(clientToOpenAi, openAiToClient)
WhenAny ==
  /\ handlerPc = "whenany"
  /\ \E d \in Dirs : relayPc[d] = "done"
  /\ handlerPc' = "cleanup"
  /\ UNCHANGED <<wsState, lost, wire, relayPc, relayed, hProduced, hTaken>>
  /\ UNCHANGED <<apiKey, hConfigs>>
  /\ UNCHANGED hookVars

\* Task.Delay(100) and the two waits of at most 2 s: they end whether or
\* not the other task has completed
CleanupWait ==
  /\ handlerPc = "cleanup"
  /\ handlerPc' = "finally1"
  /\ UNCHANGED <<wsState, lost, wire, relayPc, relayed, hProduced, hTaken>>
  /\ UNCHANGED <<apiKey, hConfigs>>
  /\ UNCHANGED hookVars

\* one if of the finally block: CloseAsync sends the close frame (ok) or
\* throws, and the exception leaves the finally block and the handler
FinallyClose(s, here, closing, next, ok) ==
  /\ handlerPc = here
  /\ IF NeedsClose(s)
       THEN /\ SendOutcome(s, ok)
            /\ IF ok
                 THEN /\ wsState' = [wsState EXCEPT ![s] = "CloseSent"]
                      /\ handlerPc' = closing
                 ELSE /\ handlerPc' = "done"
                      /\ UNCHANGED wsState
       ELSE /\ ok
            /\ handlerPc' = next
            /\ UNCHANGED wsState
  /\ UNCHANGED <<lost, wire, relayPc, relayed, hProduced, hTaken>>
  /\ UNCHANGED <<apiKey, hConfigs>>
  /\ UNCHANGED hookVars

FinallyOpenAi(ok) ==
  FinallyClose("openAiWebSocket", "finally1", "close1", "finally2", ok)

FinallyClient(ok) ==
  FinallyClose("webSocket", "finally2", "close2", "done", ok)

\* a CloseAsync of the handler (the one of the missing key, or one of the
\* finally block) returns (close frame received) or throws (connection lost)
HandlerCloseDone ==
  /\ handlerPc \in {"close1", "close2", "closekey"}
  /\ LET s == IF handlerPc = "close1" THEN "openAiWebSocket" ELSE "webSocket" IN
     \/ /\ wsState[s] = "Closed"
        /\ handlerPc' = IF handlerPc = "close1" THEN "finally2" ELSE "done"
     \/ /\ wsState[s] = "Aborted"
        /\ handlerPc' = "done"
  /\ UNCHANGED <<wsState, lost, wire, relayPc, relayed, hProduced, hTaken>>
  /\ UNCHANGED <<apiKey, hConfigs>>
  /\ UNCHANGED hookVars

\* a CloseAsync reads the socket itself while no ReceiveAsync is outstanding
\* on it: data frames are discarded, the close frame ends the handshake, a
\* lost connection aborts the socket
CloseReceive(s) ==
  /\ Closing(s)
  /\ wsState[s] = "CloseSent"
  /\ ~\E d \in Dirs : Source(d) = s /\ relayPc[d] = "recv"
  /\ IF s \in lost
       THEN /\ wsState' = [wsState EXCEPT ![s] = "Aborted"]
            /\ UNCHANGED wire
       ELSE /\ wire[s] # <<>>
            /\ wire' = [wire EXCEPT ![s] = Tail(@)]
            /\ wsState' = IF Head(wire[s]) = CloseFrame
                            THEN [wsState EXCEPT ![s] = "Closed"] ELSE wsState
  /\ UNCHANGED <<lost, handlerPc, relayPc, relayed, hProduced, hTaken>>
  /\ UNCHANGED <<apiKey, hConfigs>>
  /\ UNCHANGED hookVars

\* RelayMessages: ReceiveAsync returns a result and the loop body runs up to
\* the next await; ok is whether the send or close on the destination succeeds
RelayReceive(d, ok) ==
  LET src == Source(d)
      dst == Destination(d)
      result == Head(wire[src])
  IN
  /\ relayPc[d] = "recv"
  /\ wsState[src] \in {"Open", "CloseSent"}
  /\ src \notin lost
  /\ wire[src] # <<>>
  /\ wire' = [wire EXCEPT ![src] = Tail(@)]
  /\ IF result = CloseFrame
       THEN LET st == [wsState EXCEPT ![src] = IF @ = "Open" THEN "CloseReceived"
                                               ELSE "Closed"]
            IN /\ IF st[dst] = "Open"
                    THEN /\ SendOutcome(dst, ok)
                         /\ IF ok
                              THEN /\ wsState' = [st EXCEPT ![dst] = "CloseSent"]
                                   /\ relayPc' = [relayPc EXCEPT ![d] = "closing"]
                              ELSE /\ wsState' = st
                                   /\ relayPc' = [relayPc EXCEPT ![d] = "done"]
                    ELSE /\ ok
                         /\ wsState' = st
                         /\ relayPc' = [relayPc EXCEPT ![d] = "done"]
               /\ UNCHANGED <<relayed, hTaken>>
       ELSE /\ hTaken' = [hTaken EXCEPT ![d] = @ + 1]
            /\ UNCHANGED wsState
            /\ IF wsState[dst] = "Open"
                 THEN /\ SendOutcome(dst, ok)
                      /\ IF ok
                           THEN /\ relayed' = [relayed EXCEPT
                                                 ![d] = Append(@, Forwarded(result))]
                                /\ relayPc' = [relayPc EXCEPT
                                                 ![d] = LoopOrEnd(wsState, d)]
                           ELSE /\ relayPc' = [relayPc EXCEPT ![d] = "done"]
                                /\ UNCHANGED relayed
                 ELSE /\ ok
                      /\ relayPc' = [relayPc EXCEPT ![d] = "done"]
                      /\ UNCHANGED relayed
  /\ UNCHANGED <<lost, handlerPc, hProduced>>
  /\ UNCHANGED <<apiKey, hConfigs>>
  /\ UNCHANGED hookVars

\* RelayMessages: ReceiveAsync throws on a lost connection, which aborts the
\* source, or on a source that is already closed or aborted
RelayReceiveThrows(d) ==
  /\ relayPc[d] = "recv"
  /\ \/ /\ wsState[Source(d)] \in {"Open", "CloseSent"}
        /\ Source(d) \in lost
        /\ wsState' = [wsState EXCEPT ![Source(d)] = "Aborted"]
     \/ /\ wsState[Source(d)] \notin {"Open", "CloseSent"}
        /\ UNCHANGED wsState
  /\ relayPc' = [relayPc EXCEPT ![d] = "done"]
  /\ UNCHANGED <<lost, wire, handlerPc, relayed, hProduced, hTaken>>
  /\ UNCHANGED <<apiKey, hConfigs>>
  /\ UNCHANGED hookVars

\* RelayMessages: destination.CloseAsync returns or throws, the loop is left
RelayCloseDone(d) ==
  /\ relayPc[d] = "closing"
  /\ wsState[Destination(d)] \in {"Closed", "Aborted"}
  /\ relayPc' = [relayPc EXCEPT ![d] = "done"]
  /\ UNCHANGED <<wsState, lost, wire, handlerPc, relayed, hProduced, hTaken>>
  /\ UNCHANGED <<apiKey, hConfigs>>
  /\ UNCHANGED hookVars

\* the peer of socket s can still send
PeerCanSend(s) ==
  /\ s \notin lost
  /\ wsState[s] \in {"Open", "CloseSent"}
  /\ \A i \in 1..Len(wire[s]) : wire[s][i] # CloseFrame

\* the peer of socket s sends a data frame
PeerSend(s, f) ==
  /\ PeerCanSend(s)
  /\ Len(hProduced[s]) < MaxRelayFrames
  /\ LET frame == [type |-> f.type, eom |-> f.eom,
                   payload |-> Len(hProduced[s]) + 1]
     IN /\ wire' = [wire EXCEPT ![s] = Append(@, frame)]
        /\ hProduced' = [hProduced EXCEPT ![s] = Append(@, frame)]
  /\ UNCHANGED <<wsState, lost, handlerPc, relayPc, relayed, hTaken>>
  /\ UNCHANGED <<apiKey, hConfigs>>
  /\ UNCHANGED hookVars

\* the peer of socket s sends its close frame, on its own or in answer
PeerClose(s) ==
  /\ PeerCanSend(s)
  /\ wire' = [wire EXCEPT ![s] = Append(@, CloseFrame)]
  /\ UNCHANGED <<wsState, lost, handlerPc, relayPc, relayed, hProduced, hTaken>>
  /\ UNCHANGED <<apiKey, hConfigs>>
  /\ UNCHANGED hookVars

\* the connection of socket s is lost; the socket's State shows it only
\* once a read on it has failed
PeerAbort(s) ==
  /\ s \notin lost
  /\ wsState[s] \in {"Open", "CloseSent", "CloseReceived"}
  /\ lost' = lost \cup {s}
  /\ wire' = [wire EXCEPT ![s] = <<>>]
  /\ UNCHANGED <<wsState, handlerPc, relayPc, relayed, hProduced, hTaken>>
  /\ UNCHANGED <<apiKey, hConfigs>>
  /\ UNCHANGED hookVars

\* ------------------------------------------------------------------ text chat
Reqs == 1..MaxReq

\* what the user submits
ChatInputs == {<<" ">>, <<"a">>}

\* the data lines of one chunk of the event stream
ChatChunks == {<<"delta">>, <<"delta", "delta">>, <<"delta", "[DONE]">>,
               <<"[DONE]">>}

\* everything but the store and the chat state
exceptChat == <<connVars, isInCallActive, resVars, ui, schedVars, now,
                currentStreamingMessageId, currentStreamingContent,
                userSpeechMessageId, userSpeechBuffer, hCur, pbVars,
                histVars, capVars, relayVars>>

\* abortRef.current?.abort()
Abort(aborted) ==
  IF abortRef # 0 THEN [aborted EXCEPT ![abortRef] = TRUE] ELSE aborted

\* messages.map(msg => msg.id === id ? { ...msg, isStreaming: false } : msg)
Finalized(msgs, id) ==
  [i \in 1..Len(msgs) |->
     IF msgs[i].id = id THEN [msgs[i] EXCEPT !.isStreaming = FALSE] ELSE msgs[i]]

\* messages.map(msg => msg.id === id
\*   ? { ...msg, content: msg.content + content, isStreaming: true } : msg)
Extended(msgs, id, content) ==
  [i \in 1..Len(msgs) |->
     IF msgs[i].id = id
       THEN [msgs[i] EXCEPT !.content = @ \o content, !.isStreaming = TRUE]
       ELSE msgs[i]]

\* sendMessage(content) up to await fetch(...)
SendMessage(content) ==
  /\ \E k \in Reqs : reqPc[k] = "none"
  /\ IF Trim(content) = <<>>
       THEN UNCHANGED <<messages, chatVars>>
       ELSE LET k == CHOOSE r \in Reqs :
                       reqPc[r] = "none" /\ \A j \in Reqs : reqPc[j] = "none" => r <= j
            IN /\ messages' = Append(messages,
                                     [id |-> now, role |-> "user",
                                      content |-> Trim(content),
                                      isStreaming |-> FALSE])
               /\ isLoading' = TRUE
               /\ chatError' = "none"
               /\ reqAborted' = Abort(reqAborted)
               /\ abortRef' = k
               /\ reqPc' = [reqPc EXCEPT ![k] = "fetch"]
               /\ UNCHANGED <<reqMsg, reqLines, reqReads>>
  /\ UNCHANGED exceptChat

\* the catch block of sendMessage for an error that is not an AbortError
Failed(k, msg) ==
  /\ isLoading' = FALSE
  /\ chatError' = msg
  /\ abortRef' = 0
  /\ reqPc' = [reqPc EXCEPT ![k] = "ended"]

\* the catch block for an AbortError, and any other return
Returned(k) ==
  /\ reqPc' = [reqPc EXCEPT ![k] = "ended"]
  /\ UNCHANGED <<isLoading, chatError, abortRef>>

\* await fetch(...) settles: the response is ok, or it is not or fetch
\* rejects; an aborted fetch rejects with an AbortError
FetchDone(k, ok) ==
  /\ reqPc[k] = "fetch"
  /\ IF reqAborted[k]
       THEN ok /\ Returned(k) /\ UNCHANGED <<messages, reqMsg>>
     ELSE IF ~ok
       THEN Failed(k, "http") /\ UNCHANGED <<messages, reqMsg>>
     ELSE /\ messages' = Append(messages,
                                [id |-> now + 1, role |-> "assistant",
                                 content |-> <<>>, isStreaming |-> TRUE])
          /\ reqMsg' = [reqMsg EXCEPT ![k] = now + 1]
          /\ reqPc' = [reqPc EXCEPT ![k] = "read"]
          /\ UNCHANGED <<isLoading, chatError, abortRef>>
  /\ UNCHANGED <<reqAborted, reqLines, reqReads>>
  /\ UNCHANGED exceptChat

\* the for loop over the lines of a chunk, up to its next await: [DONE]
\* finalizes and returns, a delta is appended and the loop yields with
\* setTimeout(0), and after the last line the while loop reads again
HandleLines(k, lines) ==
  IF lines = <<>>
    THEN /\ reqPc' = [reqPc EXCEPT ![k] = "read"]
         /\ reqLines' = [reqLines EXCEPT ![k] = <<>>]
         /\ UNCHANGED <<messages, isLoading, chatError, abortRef>>
  ELSE IF Head(lines) = "[DONE]"
    THEN /\ isLoading' = FALSE
         /\ messages' = Finalized(messages, reqMsg[k])
         /\ abortRef' = 0
         /\ reqPc' = [reqPc EXCEPT ![k] = "ended"]
         /\ reqLines' = [reqLines EXCEPT ![k] = <<>>]
         /\ UNCHANGED chatError
  ELSE /\ messages' = Extended(messages, reqMsg[k], <<"x">>)
       /\ reqPc' = [reqPc EXCEPT ![k] = "yield"]
       /\ reqLines' = [reqLines EXCEPT ![k] = Tail(lines)]
       /\ UNCHANGED <<isLoading, chatError, abortRef>>

\* await reader.read() resolves with a chunk
Read(k, chunk) ==
  /\ reqPc[k] = "read"
  /\ ~reqAborted[k]
  /\ reqReads[k] < MaxChatReads
  /\ reqReads' = [reqReads EXCEPT ![k] = @ + 1]
  /\ HandleLines(k, chunk)
  /\ UNCHANGED <<reqAborted, reqMsg>>
  /\ UNCHANGED exceptChat

\* await reader.read() resolves with done: the stream ended without [DONE]
ReadEnd(k) ==
  /\ reqPc[k] = "read"
  /\ ~reqAborted[k]
  /\ isLoading' = FALSE
  /\ messages' = Finalized(messages, reqMsg[k])
  /\ abortRef' = 0
  /\ reqPc' = [reqPc EXCEPT ![k] = "ended"]
  /\ UNCHANGED <<chatError, reqAborted, reqMsg, reqLines, reqReads>>
  /\ UNCHANGED exceptChat

\* await reader.read() rejects: with an AbortError when the request was
\* aborted, else with a network error
ReadFail(k) ==
  /\ reqPc[k] = "read"
  /\ IF reqAborted[k] THEN Returned(k) ELSE Failed(k, "stream")
  /\ UNCHANGED <<messages, reqAborted, reqMsg, reqLines, reqReads>>
  /\ UNCHANGED exceptChat

\* the setTimeout(0) the loop awaits after a delta has fired
Resume(k) ==
  /\ reqPc[k] = "yield"
  /\ HandleLines(k, reqLines[k])
  /\ UNCHANGED <<reqAborted, reqMsg, reqReads>>
  /\ UNCHANGED exceptChat

\* cancel()
Cancel ==
  /\ reqAborted' = Abort(reqAborted)
  /\ abortRef' = 0
  /\ isLoading' = FALSE
  /\ UNCHANGED <<messages, chatError, reqPc, reqMsg, reqLines, reqReads>>
  /\ UNCHANGED exceptChat

\* clearMessages()
ClearMessages ==
  /\ reqAborted' = Abort(reqAborted)
  /\ abortRef' = 0
  /\ messages' = <<>>
  /\ isLoading' = FALSE
  /\ chatError' = "none"
  /\ UNCHANGED <<reqPc, reqMsg, reqLines, reqReads>>
  /\ UNCHANGED exceptChat

\* ------------------------------------------------------------ ws.onmessage
\* event.data that JSON.parse rejects
Binary == "<binary>"

\* the message types the if/else chain of ws.onmessage compares with
Handled ==
  {"session.created", "session.updated", "error", "response.created",
   "response.output_audio_transcript.delta", "response.output_audio.delta",
   "response.output_audio.done", "response.cancelled", "response.done",
   "input_audio_buffer.speech_started", "input_audio_buffer.speech_stopped",
   "conversation.item.input_audio_transcript.delta"}

\* payloads of the upstream service: the type of a JSON message, or Binary
Inbound ==
  {Binary, "rate_limits.updated", "session.updated", "error",
   "response.created", "response.done",
   "input_audio_buffer.speech_stopped",
   "response.output_audio_transcript.delta"}

Branch_m(m) == "error"

\* the branch of ws.onmessage a payload takes: "catch" when JSON.parse
\* throws, "none" when no comparison of the chain matches
Branch(m) ==
  IF m = Binary THEN "catch"
  ELSE IF m \in Handled THEN m
  ELSE "none"

\* ws.onmessage as a whole
OnMessage(c, m) ==
  LET b == Branch(m) IN
  CASE b \in {"session.created", "session.updated"} -> SessionCreated(c)
    [] b = "error" -> \E code \in ErrorCodes : ErrorEvent(c, code)
    [] b = "response.created" -> ResponseCreated(c)
    [] b = "response.output_audio_transcript.delta" ->
         \E d \in Deltas : AssistantDelta(c, d)
    [] b = "response.output_audio.delta" ->
         \E len \in DeltaLens, ok \in BOOLEAN : AudioDelta(c, len, ok)
    [] b = "response.output_audio.done" ->
         \E ok \in BOOLEAN : AudioDone(c, ok)
    [] b = "response.cancelled" -> ResponseCancelled(c)
    [] b = "response.done" -> ResponseDone(c)
    [] b = "input_audio_buffer.speech_started" -> SpeechStarted(c)
    [] b = "input_audio_buffer.speech_stopped" -> SpeechStopped(c)
    [] b = "conversation.item.input_audio_transcript.delta" ->
         \E d \in UserDeltas : UserDelta(c, d)
    [] OTHER ->
         \* the catch block logs; a type no comparison matches falls through
         /\ sock[c] = "open"
         /\ UNCHANGED <<connVars, isInCallActive, resVars, ui, schedVars,
                        txVars, pbVars>>
         /\ Did("ignored") /\ HistKeep
         /\ UNCHANGED outerVars

\* ------------------------------------------------------------ specifications
Lifecycle ==
  \/ Connect
  \/ \E c \in Conns : OnOpen(c)
  \/ \E c \in Conns : SessionCreated(c)
  \/ \E c \in Conns : OnClose(c)
  \/ \E c \in Conns : OnError(c)
  \/ \E c \in Conns : HandshakeTimeout(c)
  \/ \E c \in Conns : GetUserMediaOk(c)
  \/ \E c \in Conns : GetUserMediaFail(c)
  \/ \E c \in Conns : AddModuleOk(c)
  \/ \E c \in Conns : AddModuleFail(c)
  \/ StartCall
  \/ EndCall
  \/ Disconnect

\* connect() called while no socket of an earlier connect() is alive
ConnectIdle ==
  /\ Connect
  /\ \A c \in Conns : sock[c] \in {"unused", "closed"}
  /\ Cardinality({c \in Conns : sock[c] # "unused"}) < MaxSessions

\* the lifecycle of one socket at a time, without the failures of connect()
LifecycleCore ==
  \/ ConnectIdle
  \/ \E c \in Conns : OnOpen(c)
  \/ \E c \in Conns : SessionCreated(c)
  \/ \E c \in Conns : OnClose(c)
  \/ \E c \in Conns : GetUserMediaOk(c)
  \/ \E c \in Conns : AddModuleOk(c)
  \/ StartCall
  \/ EndCall
  \/ Disconnect

Scheduling ==
  \/ Frame
  \/ \E c \in Conns, code \in ErrorCodes : ErrorEvent(c, code)
  \/ \E c \in Conns : ResponseCreated(c)
  \/ \E c \in Conns : ResponseCancelled(c)
  \/ \E c \in Conns : ResponseDone(c)
  \/ \E c \in Conns : SpeechStarted(c)
  \/ \E c \in Conns : SpeechStopped(c)
  \/ GraceFire
  \/ FallbackFire

Transcript ==
  \/ Tick
  \/ \E c \in Conns, d \in Deltas : AssistantDelta(c, d)
  \/ \E c \in Conns, d \in UserDeltas : UserDelta(c, d)

Playback ==
  \/ \E c \in Conns, len \in DeltaLens, ok \in BOOLEAN : AudioDelta(c, len, ok)
  \/ \E c \in Conns, ok \in BOOLEAN : AudioDone(c, ok)
  \/ \E a \in awaiting : OnEnded(a)

\* sessions of one socket at a time with the commit scheduler: capture,
\* control events, timers
NextSched == LifecycleCore \/ Scheduling

SpecSched == Init /\ [][NextSched]_vars

\* sessions of one socket at a time with the transcript assembler and the
\* store
NextTx ==
  \/ ConnectIdle
  \/ \E c \in Conns : OnOpen(c)
  \/ \E c \in Conns : OnClose(c)
  \/ Disconnect
  \/ \E c \in Conns : ResponseDone(c)
  \/ \E c \in Conns : ResponseCancelled(c)
  \/ \E c \in Conns : SpeechStarted(c)
  \/ \E c \in Conns : SpeechStopped(c)
  \/ Transcript

SpecTx == Init /\ [][NextTx]_vars

\* sessions of one socket at a time with the playback queue
NextPb ==
  \/ ConnectIdle
  \/ \E c \in Conns : OnOpen(c)
  \/ \E c \in Conns : SessionCreated(c)
  \/ \E c \in Conns : OnClose(c)
  \/ \E c \in Conns : GetUserMediaOk(c)
  \/ Disconnect
  \/ \E c \in Conns : ResponseDone(c)
  \/ Playback

SpecPb == Init /\ [][NextPb]_vars

\* the playback queue together with the events that begin and end a response
NextPbResp ==
  \/ NextPb
  \/ \E c \in Conns : ResponseCreated(c)
  \/ \E c \in Conns : ResponseCancelled(c)

SpecPbResp == Init /\ [][NextPbResp]_vars

\* the commit scheduler where a timer that stays armed fires
SpecSchedFair ==
  /\ Init /\ [][NextSched]_vars
  /\ WF_vars(GraceFire)
  /\ WF_vars(FallbackFire)

\* onended of a started source whose audio context is not closed
OnEndedAlive == \E a \in awaiting : ctx[a.ctx] = "open" /\ OnEnded(a)

\* the playback queue where a chunk that plays in a live context ends
SpecPbFair == Init /\ [][NextPb]_vars /\ WF_vars(OnEndedAlive)

\* sessions of one socket at a time where every inbound payload goes
\* through ws.onmessage
NextMsg ==
  \/ ConnectIdle
  \/ \E c \in Conns : OnOpen(c)
  \/ \E c \in Conns : OnClose(c)
  \/ Disconnect
  \/ GraceFire
  \/ \E c \in Conns, m \in Inbound : OnMessage(c, m)

SpecMsg == Init /\ [][NextMsg]_vars

\* the text chat alone
NextChat ==
  \/ Tick
  \/ \E content \in ChatInputs : SendMessage(content)
  \/ \E k \in Reqs, ok \in BOOLEAN : FetchDone(k, ok)
  \/ \E k \in Reqs, chunk \in ChatChunks : Read(k, chunk)
  \/ \E k \in Reqs : ReadEnd(k)
  \/ \E k \in Reqs : ReadFail(k)
  \/ \E k \in Reqs : Resume(k)
  \/ Cancel
  \/ ClearMessages

SpecChat == Init /\ [][NextChat]_vars

\* connect, calls and teardown with every failure of connect()
NextLife ==
  \/ Lifecycle
  \/ \E c \in Conns, code \in ErrorCodes : ErrorEvent(c, code)

SpecLife == Init /\ [][NextLife]_vars

\* the frame capturer alone, fed render quanta of any length
NextCap ==
  \/ AudioProcessor
  \/ \E len \in QuantumLens : Process(len)

SpecCap == Init /\ [][NextCap]_vars

\* HandleRealtimeConnection
Handler ==
  \/ \E k \in Keys, ok \in BOOLEAN : ReadKey(k, ok)
  \/ \E ok \in BOOLEAN : ConnectAsync(ok)
  \/ \E ok \in BOOLEAN : SendConfig(ok)
  \/ WhenAny
  \/ CleanupWait
  \/ \E ok \in BOOLEAN : FinallyOpenAi(ok)
  \/ \E ok \in BOOLEAN : FinallyClient(ok)
  \/ HandlerCloseDone

\* one RelayMessages task
Task(d) ==
  \/ \E ok \in BOOLEAN : RelayReceive(d, ok)
  \/ RelayReceiveThrows(d)
  \/ RelayCloseDone(d)

\* the two peers
Peers ==
  \/ \E s \in Side, f \in RelayFrames : PeerSend(s, f)
  \/ \E s \in Side : PeerClose(s)
  \/ \E s \in Side : PeerAbort(s)

\* the relay between the browser and the upstream service
NextRelay ==
  \/ Handler
  \/ \E d \in Dirs : Task(d)
  \/ \E s \in Side : CloseReceive(s)
  \/ Peers

SpecRelay == Init /\ [][NextRelay]_vars

\* a peer answers a close frame by its own
PeerCloseReply(s) == PeerClose(s) /\ wsState[s] = "CloseSent"

\* the relay with peers whose data frames are all complete text messages
NextRelayText ==
  \/ Handler
  \/ \E d \in Dirs : Task(d)
  \/ \E s \in Side : CloseReceive(s)
  \/ \E s \in Side : PeerSend(s, [type |-> "Text", eom |-> TRUE])
  \/ \E s \in Side : PeerClose(s)
  \/ \E s \in Side : PeerAbort(s)

\* that relay where the handler and the tasks go on while they can, timers
\* fire, and a peer that is sent a close frame answers it unless the
\* connection is lost
SpecRelayFair ==
  /\ Init /\ [][NextRelayText]_vars
  /\ WF_vars(Handler)
  /\ \A d \in Dirs : WF_vars(Task(d))
  /\ \A s \in Side : WF_vars(CloseReceive(s))
  /\ \A s \in Side : WF_vars(PeerCloseReply(s))

Next == Lifecycle \/ Scheduling \/ Transcript \/ Playback \/ NextCap \/ NextRelay

Spec == Init /\ [][Next]_vars

\* ---------------------------------------------------------------- properties
CommitSent == {"grace.sent", "grace.sent.short"}
CommitIssued == CommitSent \cup {"grace.dropped"}
GraceOutcomes == CommitIssued \cup {"grace.threw", "grace.skipped"}
CancelSent == {"cancel.barge", "stop.cancel"}
StopOutcomes == CancelSent \cup {"stop", "stop.dropped", "stop.threw"}

\* C1 as stated: a commit is sent only with at least MIN_COMMIT_SAMPLES
\* uncommitted samples at the moment of sending, and never after a
\* speech_stopped that came with fewer than MIN_COMMIT_SAMPLES.
C1_Original ==
  [][hLast' \in CommitSent =>
       uncommittedSamplesRef >= MIN_COMMIT_SAMPLES /\ ~hStopShort]_vars

\* C1 amended: whenever the grace callback issues a commit, the counter at
\* that moment is at least MIN_COMMIT_SAMPLES (frames appended during the
\* grace window count, so the counter at speech_stopped may have been lower).
C1_MinimumCommit ==
  [][hLast' \in CommitIssued =>
       uncommittedSamplesRef >= MIN_COMMIT_SAMPLES]_vars

\* a commit was sent although speech_stopped came below the threshold
C1_Witness == hLast = "grace.sent.short"

\* C2: no response.create is sent while an earlier response.create is still
\* unanswered by response.done or response.cancelled.
C2_ResponseExclusivity == [][hLast' = "fallback.sent" => ~hCreateOut]_vars

\* C3 as stated: after a speech_started received during a response, no commit
\* is sent before a response.cancel, whatever arrives in between.
C3_Original ==
  [][hLast' \in CommitIssued => hBarge \notin {"live", "ended"}]_vars

\* C3 amended: after a speech_started received during a response that is
\* still in progress when speech_stopped is handled, a response.cancel is
\* issued before the commit of that utterance.
C3_BargeInCancel == [][hLast' \in CommitIssued => hBarge # "live"]_vars

\* the speech_stopped handler answered a barge-in by a response.cancel and
\* armed the grace timer whose callback issues the commit
C3_Witness ==
  hLast = "cancel.barge" /\ speechStopTimeoutRef = "pending" /\ gracePending = 1

\* C4: within one open cursor of either direction, the content of every
\* message event extends the content of the event before it.
C4_PrefixAppend ==
  [][\A i \in 1..Len(hEvents') :
       IsPrefix(hCur[hEvents'[i].role], hEvents'[i].content)]_vars

\* an update event of the open assistant cursor extended a non-empty content
C4_Witness ==
  /\ hLast = "assistant.delta"
  /\ Len(hEvents) = 1
  /\ hEvents[1].isUpdate
  /\ Len(hEvents[1].content) >= 2
  /\ hCur["assistant"] = hEvents[1].content

\* C5: chunks begin playback in the order of their enqueueing, and when a
\* chunk begins no other chunk is playing.
C5_PlaybackOrder ==
  [][hLastStarted' # hLastStarted =>
       hLastStarted' > hLastStarted /\ Cardinality(awaiting') = 1]_vars

\* the second chunk began after the first one ended
C5_Witness == hLastStarted = 2 /\ Cardinality(awaiting) = 1 /\ hLast = "onended"

AllReleased ==
  \A c \in Conns : /\ sock[c] \notin {"connecting", "open"}
                   /\ stream[c] # "live"
                   /\ ctx[c] # "open"
                   /\ nodes[c] = 0

\* C6: once disconnect has been called (and connect not again), every owned
\* resource is released, also when a connect was still in progress.
C6_Teardown == wsRef = 0 => AllReleased

\* C7: response.created leaves no fallback timer that could send a
\* response.create, and a grace expiry with at least MIN_COMMIT_SAMPLES
\* uncommitted samples on an open connection sends the commit.
C7_FallbackAndCommit ==
  [][/\ hLast' = "response.created" => fallbackPending' = 0
     /\ (hLast' \in GraceOutcomes /\ WsReady = "open"
           /\ uncommittedSamplesRef >= MIN_COMMIT_SAMPLES)
          => hLast' \in CommitSent]_vars

\* C8 as stated: a grace expiry below the threshold sends nothing and
\* discards the short audio (counter 0, dirty flag clear).
C8_Original ==
  [][(hLast' \in GraceOutcomes /\ uncommittedSamplesRef < MIN_COMMIT_SAMPLES)
       => /\ hLast' = "grace.skipped"
          /\ uncommittedSamplesRef' = 0
          /\ ~hasUncommittedAudioRef']_vars

\* C8 amended: a grace expiry below the threshold sends nothing, arms no
\* fallback timer and leaves the counter and the dirty flag as they were.
C8_ShortAudioKept ==
  [][(hLast' \in GraceOutcomes /\ uncommittedSamplesRef < MIN_COMMIT_SAMPLES)
       => /\ hLast' = "grace.skipped"
          /\ UNCHANGED <<uncommittedSamplesRef, hasUncommittedAudioRef,
                         responseInProgressRef, pendingCreateTimeoutRef,
                         fallbackPending>>]_vars

\* the grace timer expired on short audio, which is still counted
C8_Witness ==
  /\ hLast = "grace.skipped"
  /\ uncommittedSamplesRef > 0
  /\ uncommittedSamplesRef < MIN_COMMIT_SAMPLES
  /\ hasUncommittedAudioRef

\* C9: right after disconnect every component is in its initial state.
C9_DisconnectResets ==
  hLast = "disconnect" =>
    /\ speechStopTimeoutRef = "null" /\ gracePending = 0
    /\ pendingCreateTimeoutRef = "null" /\ fallbackPending = 0
    /\ uncommittedSamplesRef = 0
    /\ ~hasUncommittedAudioRef
    /\ ~responseInProgressRef
    /\ currentStreamingMessageId = -1 /\ currentStreamingContent = <<>>
    /\ userSpeechMessageId = -1 /\ userSpeechBuffer = <<>>
    /\ audioResponseBuffer = <<>>
    /\ audioQueueRef = <<>>
    /\ ~isPlayingAudioRef
    /\ ~isInCallActive
    /\ ~sessionReadyRef

\* C10: right after an error event with a code other than the two benign
\* ones the error is shown and the session is no longer active: capture is
\* stopped and the session is not treated as established.
C10_FatalErrorAborts ==
  hLast = "error.fatal" =>
    /\ ui.error = "session"
    /\ ~isInCallActive
    /\ ~sessionReadyRef

\* C11: when the handshake of a connect() fails (timeout, connection error,
\* close or error event before session.created), the socket that connect()
\* opened is no longer connecting or open, and that connect() holds no
\* microphone stream and no audio context.
C11_HandshakeFailureReleases ==
  [][\A c \in Conns :
       (pc[c] = "handshake" /\ pc'[c] = "failed")
         => /\ sock'[c] \notin {"connecting", "open"}
            /\ stream'[c] # "live"
            /\ ctx'[c] # "open"]_vars

\* C12: when the socket of the session closes while a call is active, the
\* call is no longer active afterwards (so no later frame is processed) and
\* the connection state is the disconnected one: not connected, session
\* not ready, the socket closed.
C12_DropStopsCapture ==
  [][\A c \in Conns :
       (wsRef = c /\ isInCallActive /\ sock[c] # "closed" /\ sock'[c] = "closed")
         => /\ ~isInCallActive'
            /\ ~ui'.isInCall
            /\ ~ui'.isConnected
            /\ ~ui'.sessionReady
            /\ ~sessionReadyRef']_vars

\* every program variable but the uncommitted counter and the dirty flag
exceptPendingInput ==
  <<connVars, isInCallActive, resVars, ui, responseInProgressRef,
    speechStopTimeoutRef, pendingCreateTimeoutRef, gracePending,
    fallbackPending, now, currentStreamingMessageId, currentStreamingContent,
    userSpeechMessageId, userSpeechBuffer, messages, audioResponseBuffer,
    audioQueueRef, isPlayingAudioRef, awaiting, nextDelta, nextChunk>>

\* C13: an error event with code input_audio_buffer_commit_empty resets the
\* uncommitted counter and the dirty flag and changes nothing else; one with
\* code conversation_already_has_active_response changes nothing; the shown
\* error, the connection, the session-ready flag and the response flag are
\* the same before and after both.
C13_BenignErrors ==
  [][/\ hLast' = "error.empty"
          => /\ uncommittedSamplesRef' = 0
             /\ ~hasUncommittedAudioRef'
             /\ UNCHANGED exceptPendingInput
     /\ hLast' = "error.active"
          => UNCHANGED <<exceptPendingInput, uncommittedSamplesRef,
                         hasUncommittedAudioRef>>]_vars

\* a rejected commit was answered while a grace timer and a response were
\* outstanding: both are still there, the pending input is reset
C13_Witness ==
  /\ hLast = "error.empty"
  /\ uncommittedSamplesRef = 0 /\ ~hasUncommittedAudioRef
  /\ responseInProgressRef
  /\ speechStopTimeoutRef = "pending" /\ gracePending = 1
  /\ isInCallActive /\ sessionReadyRef
  /\ ui.error = "none"

\* C14: a frame handled during a call while the socket is not open or the
\* session is not established leaves the uncommitted counter, the dirty flag
\* and every other ref as they were (nothing of it is kept for a later
\* send), and the UI is told: recording stopped, error shown.
C14_FrameDropped ==
  [][hLast' = "frame.lost"
       => /\ UNCHANGED <<uncommittedSamplesRef, hasUncommittedAudioRef,
                         connVars, isInCallActive, resVars, schedVars,
                         txVars, pbVars>>
          /\ ui'.isRecording = "false"
          /\ ui'.error = "lost"]_vars

\* a frame was dropped after the socket closed under a call that had
\* uncommitted audio, which is still counted
C14_Witness ==
  /\ hLast = "frame.lost"
  /\ WsReady = "closed"
  /\ isInCallActive
  /\ uncommittedSamplesRef = bufferSize /\ hasUncommittedAudioRef
  /\ ui.isRecording = "false" /\ ui.error = "lost"

\* C15: endCall stops capture (call inactive, worklet node detached) and
\* leaves the socket, wsRef and the session-ready flag as they were; every
\* startCall on an open, established connection with a microphone and a
\* loaded worklet module, after however many endCalls, makes the call active
\* with a new node attached and leaves the connection as it was.
C15_EndCallKeepsConnection ==
  [][/\ hLast' = "endcall"
          => /\ ~isInCallActive' /\ nodeRef' = 0 /\ ~ui'.isInCall
             /\ UNCHANGED <<connVars, stream, ctx, mediaStreamRef,
                            audioContextRef>>
             /\ ui'.isConnected = ui.isConnected
             /\ ui'.sessionReady = ui.sessionReady
     /\ (hLast' = "startcall" /\ moduleLoaded[audioContextRef])
          => /\ isInCallActive' /\ ui'.isInCall
             /\ nodeRef' = audioContextRef
             /\ nodes'[audioContextRef] = nodes[audioContextRef] + 1
             /\ UNCHANGED connVars]_vars

\* a call was started on a connection on which an earlier call, whose audio
\* is still counted, had been ended
C15_Witness ==
  /\ hLast = "startcall"
  /\ isInCallActive /\ nodeRef # 0 /\ nodes[nodeRef] = 1
  /\ uncommittedSamplesRef > 0
  /\ WsReady = "open" /\ sessionReadyRef

\* C16: an event with streaming=false (the completion of a turn) is an
\* update addressed to the identifier of the open cursor of its direction
\* and carries the accumulated buffer; it adds no record to the store, the
\* addressed record is non-streaming afterwards, and the cursor is closed
\* (identifier absent, buffer empty) when the handler returns.
C16_Finalization ==
  [][\A i \in 1..Len(hEvents') :
       LET e == hEvents'[i]
           assistant == e.role = "assistant"
           id == IF assistant THEN currentStreamingMessageId
                 ELSE userSpeechMessageId
           buf == IF assistant THEN currentStreamingContent
                  ELSE userSpeechBuffer
       IN ~e.isStreaming
            => /\ e.isUpdate /\ id # -1 /\ e.messageId = id
               /\ e.content = buf
               /\ Len(messages') = Len(messages)
               /\ \A k \in 1..Len(messages') :
                    messages'[k].id = id => ~messages'[k].isStreaming
               /\ IF assistant
                    THEN /\ currentStreamingMessageId' = -1
                         /\ currentStreamingContent' = <<>>
                    ELSE /\ userSpeechMessageId' = -1
                         /\ userSpeechBuffer' = <<>>]_vars

\* C17: while the hook holds a socket, the isPlayingResponse observable is
\* true exactly in the states in which the drain loop is active (a chunk is
\* playing or waiting for the running loop), whatever other event was
\* handled meanwhile.
C17_PlayingObservable ==
  wsRef # 0 => ui.isPlayingResponse = (isPlayingAudioRef \/ awaiting # {})

\* the samples k+1 .. k+n of the input stream
Samples(k, n) == [j \in 1..n |-> k + j]

\* C18: whatever the lengths of the render quanta, every posted block has
\* bufferSize samples, the posted blocks one after the other are the first
\* bufferSize * floor(N / bufferSize) of the N input samples in their order,
\* and the partial tail stays in the processor.
C18_Framing ==
  /\ Len(capPosted) = capFed \div bufferSize
  /\ \A b \in 1..Len(capPosted) :
       capPosted[b] = Samples((b - 1) * bufferSize, bufferSize)
  /\ capBuffer # <<>> => bufferIndex = capFed % bufferSize

\* two blocks were posted and a partial tail of 8 samples is held back
C18_Witness ==
  /\ Len(capPosted) = 2
  /\ capFed = 2 * bufferSize + 8
  /\ bufferIndex = 8

\* C19: in each direction the frames the task has sent on are the first
\* frames the peer of its source has sent, in their order and with type,
\* end-of-message flag and payload as sent; a frame the task received is
\* missing among them only if its destination is no longer open or has lost
\* its connection (at most the last one, after which the task stops).
C19_Verbatim ==
  \A d \in Dirs :
    /\ IsPrefix(relayed[d], hProduced[Source(d)])
    /\ Len(relayed[d]) <= hTaken[d]
    /\ hTaken[d] <= Len(relayed[d]) + 1
    /\ hTaken[d] > Len(relayed[d])
         => /\ wsState[Destination(d)] # "Open" \/ Destination(d) \in lost
            /\ relayPc[d] = "done"

\* both directions forwarded two frames of different type and flag while
\* both sockets stayed open
C19_Witness ==
  /\ \A d \in Dirs : /\ Len(relayed[d]) = 2
                     /\ relayed[d] = hProduced[Source(d)]
                     /\ relayed[d][1].type # relayed[d][2].type
  /\ \A s \in Side : wsState[s] = "Open" /\ s \notin lost

\* a side of the relay has closed or failed
SideEnded ==
  \E s \in Side : \/ wsState[s] \in {"CloseReceived", "Aborted"}
                  \/ s \in lost
                  \/ \E i \in 1..Len(wire[s]) : wire[s][i] = CloseFrame

\* socket s is open: its State is Open and its connection stands
LeftOpen(s) == wsState[s] = "Open" /\ s \notin lost

\* C20: once either side has closed or failed, HandleRealtimeConnection
\* returns in the end and neither socket is left open then, whatever the
\* other task is waiting for.
C20_BothClosed ==
  SideEnded ~> (handlerPc = "done" /\ \A s \in Side : ~LeftOpen(s))


\* C21: a grace expiry with at least MIN_COMMIT_SAMPLES uncommitted samples
\* on an open connection sends the commit, resets the counter and the dirty
\* flag and, when no response is in progress, arms the fallback timer,
\* whatever events came before it.
C21_GraceCommits ==
  [][(hLast' \in GraceOutcomes /\ WsReady = "open"
        /\ uncommittedSamplesRef >= MIN_COMMIT_SAMPLES)
       => /\ hLast' \in CommitSent
          /\ uncommittedSamplesRef' = 0
          /\ ~hasUncommittedAudioRef'
          /\ ~responseInProgressRef
               => pendingCreateTimeoutRef' = "pending" /\ fallbackPending' = 1]_vars


\* C22: after a commit was sent, in the end a response is in progress (the
\* remote created one or the fallback sent response.create) unless the
\* connection is given up, whatever events arrive after the commit.
C22_ResponseFollowsCommit ==
  (hLast \in CommitSent)
    ~> (responseInProgressRef \/ hLast = "fallback.sent" \/ WsReady # "open")


\* C23: the response flag turns true only in the response.created handler
\* or the fallback callback, and turns false only in the response.done
\* handler, the response.cancelled handler or disconnect().
C23_ResponseFlag ==
  [][/\ (~responseInProgressRef /\ responseInProgressRef')
          => \/ \E c \in Conns : ResponseCreated(c)
             \/ FallbackFire
     /\ (responseInProgressRef /\ ~responseInProgressRef')
          => \/ \E c \in Conns : ResponseDone(c)
             \/ \E c \in Conns : ResponseCancelled(c)
             \/ Disconnect]_vars


\* C24: right after the speech_started handler no grace timer is pending,
\* the uncommitted counter is 0 and the dirty flag is false.
C24_SpeechStartResets ==
  [][(\E c \in Conns : SpeechStarted(c))
       => /\ gracePending' = 0
          /\ speechStopTimeoutRef' = "null"
          /\ uncommittedSamplesRef' = 0
          /\ ~hasUncommittedAudioRef']_vars


CallPossible == WsReady = "open" /\ sessionReadyRef /\ mediaStreamRef # 0

C27_EnqueuedOnce ==
  \A i, j \in 1..Len(hEnqueued) : i < j => hEnqueued[i] < hEnqueued[j]


\* C28: whenever the drain loop is active or chunks wait in the queue, in
\* the end the queue is empty and the playing flag is false, across failed
\* chunks, disconnect and reconnect.
C28_DrainTerminates ==
  (isPlayingAudioRef \/ audioQueueRef # <<>>)
    ~> (~isPlayingAudioRef /\ audioQueueRef = <<>>)


\* C29: a record of the store that is non-streaming keeps its content and
\* its streaming flag in every later step.
C29_FinalizedImmutable ==
  [][\A k \in 1..Len(messages) :
       ~messages[k].isStreaming
         => /\ k <= Len(messages')
            /\ messages'[k] = messages[k]]_vars


\* C30: in every reachable state at most one grace callback and at most one
\* fallback callback are pending, and one is pending exactly when its ref
\* holds a handle that neither fired nor was cleared.
C30_OneTimerEach ==
  /\ gracePending \in {0, 1}
  /\ fallbackPending \in {0, 1}
  /\ gracePending = 1 <=> speechStopTimeoutRef = "pending"
  /\ fallbackPending = 1 <=> pendingCreateTimeoutRef = "pending"

\* both timers are pending at once, the grace timer armed again by a second
\* speech_stopped after the first one's grace callback armed the fallback
C30_Witness ==
  /\ gracePending = 1 /\ fallbackPending = 1
  /\ hLast = "stop"
  /\ hStopShort

\* the payloads of Inbound that JSON.parse rejects or whose type is none of
\* the recognized ones
Unhandled == {m \in Inbound : m = Binary \/ m \notin Handled}

\* C31: a step of ws.onmessage on an unparseable payload or on a message of
\* an unrecognized type changes no connection, call, scheduler, transcript or
\* playback state and no UI state (so sets no error), calls onAddMessage not
\* at all and sends nothing.
C31_UnknownIgnored ==
  [][(\E c \in Conns, m \in Unhandled : OnMessage(c, m))
       => /\ UNCHANGED <<connVars, isInCallActive, resVars, ui, schedVars,
                         now, currentStreamingMessageId,
                         currentStreamingContent, userSpeechMessageId,
                         userSpeechBuffer, messages, pbVars>>
          /\ hEvents' = <<>>
          /\ hLast' = "ignored"]_vars

\* an unrecognized payload was handled during a response, with the session
\* ready, the grace timer armed and a transcript cursor open
C31_Witness ==
  /\ hLast = "ignored"
  /\ responseInProgressRef
  /\ sessionReadyRef
  /\ gracePending = 1
  /\ currentStreamingMessageId # -1

C32_WitnessNoKey ==
  /\ apiKey = ""
  /\ handlerPc = "done"
  /\ wsState["webSocket"] = "Closed"
  /\ wsState["openAiWebSocket"] = "None"

\* a callback of a socket that wsRef no longer holds runs while wsRef holds
\* another one: its close, error or handshake-timeout callback, or its
\* message handler on session.created or error
StaleEvent ==
  /\ wsRef # 0
  /\ \E c \in Conns :
       /\ c # wsRef
       /\ \/ OnClose(c)
          \/ OnError(c)
          \/ HandshakeTimeout(c)
          \/ SessionCreated(c)
          \/ \E code \in ErrorCodes : ErrorEvent(c, code)

\* C33: a callback of a discarded or replaced socket leaves the ready flag,
\* the response flag, the dirty flag, the sample counter and the transcript
\* cursors of the current session as they are.
C33_StaleEventsInert ==
  [][StaleEvent
       => UNCHANGED <<sessionReadyRef, responseInProgressRef,
                      hasUncommittedAudioRef, uncommittedSamplesRef,
                      currentStreamingMessageId, userSpeechMessageId>>]_vars

\* the steps in which a control message went out
ControlSent == CommitSent \cup CancelSent \cup {"fallback.sent"}

C35_OneResponsePerRecord ==
  [][/\ (\E c \in Conns : ResponseDone(c) \/ ResponseCancelled(c))
          => /\ currentStreamingMessageId' = -1
             /\ currentStreamingContent' = <<>>
     /\ (hLast' = "assistant.delta" /\ currentStreamingMessageId = -1)
          => /\ Len(messages') = Len(messages) + 1
             /\ \E d \in Deltas :
                  /\ currentStreamingContent' = d
                  /\ messages'[Len(messages')].content = Trim(d)
             /\ \A k \in 1..Len(messages) :
                  messages[k].id # messages'[Len(messages')].id]_vars

\* C36: in every reachable state the records of the transcript store have
\* pairwise distinct identifiers.
C36_DistinctIds ==
  \A i, j \in 1..Len(messages) : i # j => messages[i].id # messages[j].id

\* C37: in every reachable state at most one socket of the hook is
\* connecting or open, and right after disconnect() none is.
C37_OneConnection ==
  /\ Cardinality({c \in Conns : sock[c] \in {"connecting", "open"}}) <= 1
  /\ hLast = "disconnect" => \A c \in Conns : sock[c] \notin {"connecting", "open"}

\* C38: a step in which the response in progress ends (the response flag
\* falls: response.done, response.cancelled, disconnect) leaves the
\* isReceivingResponse indicator false.
C38_IndicatorCleared ==
  [][(responseInProgressRef /\ ~responseInProgressRef')
       => ~ui'.isReceivingResponse]_vars

\* C39: after every step, no record is flagged streaming when isLoading is
\* false; a sendMessage() call that ends (by [DONE], end of stream, an error
\* or an abort) leaves its assistant record non-streaming; and the content of
\* the assistant record of an aborted call (cancel, clearMessages, a later
\* sendMessage) no longer changes.
C39_StreamEndsClean ==
  [][/\ ~isLoading' => \A i \in 1..Len(messages') : ~messages'[i].isStreaming
     /\ \A k \in Reqs :
          (reqPc[k] # "ended" /\ reqPc'[k] = "ended" /\ reqMsg[k] # -1)
            => \A i \in 1..Len(messages') :
                 messages'[i].id = reqMsg[k] => ~messages'[i].isStreaming
     /\ \A k \in Reqs :
          (reqAborted[k] /\ reqMsg[k] # -1)
            => \A i \in 1..Len(messages) :
                 (messages[i].id = reqMsg[k] /\ i <= Len(messages'))
                   => messages'[i].content = messages[i].content]_vars

\* C40: in every reachable state the dirty flag is true exactly when the
\* uncommitted-sample counter is above 0.
C40_DirtyIffSamples ==
  hasUncommittedAudioRef <=> uncommittedSamplesRef > 0

====
